---- MODULE Spec2Model ----
(***************************************************************************)
(* Resource claiming subsystem of provider-utils: the device-pool plugin   *)
(* (claimutils/gpu/gpu.go) and the Claimer actor                           *)
(* (claimutils/claim/claimer.go), modelled as a state machine.             *)
(*                                                                         *)
(* Goroutines of the model: the callers of Claim/Release (one per call),   *)
(* the background loop started by Start, and the owners of the contexts    *)
(* (who may cancel them).  Channels are sequences bounded by their         *)
(* capacity; a closed signalling channel is a boolean.                     *)
(***************************************************************************)
EXTENDS Integers, Sequences, FiniteSets, TLC

\* ------------------------------------------------------------------ bounds
\* number of Claim/Release calls made on the Claimer in one behaviour
MaxCalls == 2
\* number of addresses the reader of a device pool called directly may find
MaxDevices == 2

\* --------------------------------------------------------------- constants
\* capacity of toClaim and of toRelease
QueueDepth == 1
\* ResultDepth as if resultChan were made without a buffer
ResultDepthUnbuffered == Len(<<>>)

\* capacity of every request's resultChan
ResultDepth == 1

ClaimStatusFree == TRUE
ClaimStatusClaimed == FALSE

\* resource names a caller may use; which of them have a plugin is decided
\* by the registry the Claimer was constructed with
Names == {"gpu", "nic", "ext", "aux"}

\* the ResourceLists callers ask for: one resource; two resources within
\* the supply; two resources of which the second is beyond its supply; and
\* lists naming "ext" and "aux", which have a plugin in some registries only
ResourceLists ==
    {[n \in {"gpu"} |-> 1],
     [n \in {"gpu", "nic"} |-> 1],
     [n \in {"gpu", "nic"} |-> IF n = "gpu" THEN 1 ELSE 2],
     [n \in {"gpu", "ext"} |-> 1],
     [n \in {"gpu", "ext", "aux"} |-> 1]}

\* ---------------------------------------------------------------- errors
NoErr == [e |-> "nil", on |-> {}]
Err(e) == [e |-> e, on |-> {}]
ErrOn(e, names) == [e |-> e, on |-> names]

ErrMissingPlugins(names) == ErrOn("MissingPlugins", names)
ErrNotStarted == Err("NotStarted")
ErrAlreadyStarted == Err("AlreadyStarted")
ErrInsufficientResources == Err("InsufficientResources")
ErrInvalidResourceClaim == Err("InvalidResourceClaim")
\* errors.Join(ErrReleaseClaim, err): matches ErrReleaseClaim, carries the
\* per-entry errors (here: the names whose Release failed)
ErrReleaseClaim(names) == ErrOn("ReleaseClaim", names)
\* ctx.Err() of a caller's context and of the context given to Start
CallCtxErr == Err("CallCtxErr")
StartCtxErr == Err("StartCtxErr")
\* the error of a plugin that is not a device pool
ErrPluginClaim == Err("PluginClaimError")

\* ---------------------------------------------------------------- claims
\* ResourceClaim values: the device-pool variant carries the addresses, the
\* other variants carry none; NilClaim is the nil interface value
GpuClaim(addrs) == [variant |-> "gpu", devices |-> addrs]
ExtClaim == [variant |-> "ext", devices |-> <<>>]
NilClaim == [variant |-> "nil", devices |-> <<>>]

\* a Claims result: <<>> is the nil map, <<m>> the map m
NilClaims == <<>>
SomeClaims(m) == <<m>>

EmptyMap == [n \in {} |-> NilClaim]
MapPut(m, k, v) == [n \in DOMAIN m \cup {k} |-> IF n = k THEN v ELSE m[n]]

SeqSet(s) == {s[i] : i \in 1..Len(s)}

\* every order in which a range over a map with key set S may visit it
Orders(S) == {o \in [1..Cardinality(S) -> S] : \A i, j \in 1..Cardinality(S) : o[i] = o[j] => i = j}

\* ------------------------------------------------- device-pool plugin (gpu)
FreeCount(devs) == Cardinality({a \in DOMAIN devs : devs[a] = ClaimStatusFree})

\* gpuClaimPlugin.canClaim
canClaim(devs, quantity) == FreeCount(devs) >= quantity

\* ClaimLoop without the assignment g.devices[device] = ClaimStatusClaimed
RECURSIVE ClaimLoopNoMark(_, _, _, _, _)
ClaimLoopNoMark(devs, order, i, requested, got) ==
    IF i > Len(order) THEN [devices |-> devs, got |-> got]
    ELSE IF Len(got) = requested THEN [devices |-> devs, got |-> got]
    ELSE IF devs[order[i]] = ClaimStatusFree
         THEN ClaimLoopNoMark(devs, order, i + 1, requested, Append(got, order[i]))
         ELSE ClaimLoopNoMark(devs, order, i + 1, requested, got)

\* ClaimLoop breaking one device late
RECURSIVE ClaimLoopLate(_, _, _, _, _)
ClaimLoopLate(devs, order, i, requested, got) ==
    IF i > Len(order) THEN [devices |-> devs, got |-> got]
    ELSE IF Len(got) > requested THEN [devices |-> devs, got |-> got]
    ELSE IF devs[order[i]] = ClaimStatusFree
         THEN ClaimLoopLate([devs EXCEPT ![order[i]] = ClaimStatusClaimed], order, i + 1,
                            requested, Append(got, order[i]))
         ELSE ClaimLoopLate(devs, order, i + 1, requested, got)

\* ClaimLoop without the test claimed == ClaimStatusFree
RECURSIVE ClaimLoopNoCheck(_, _, _, _, _)
ClaimLoopNoCheck(devs, order, i, requested, got) ==
    IF i > Len(order) THEN [devices |-> devs, got |-> got]
    ELSE IF Len(got) = requested THEN [devices |-> devs, got |-> got]
    ELSE ClaimLoopNoCheck([devs EXCEPT ![order[i]] = ClaimStatusClaimed], order, i + 1,
                          requested, Append(got, order[i]))

\* the for-range of gpuClaimPlugin.Claim over g.devices, visited in `order`,
\* from position i with `got` already appended to gClaim.devices
RECURSIVE ClaimLoop(_, _, _, _, _)
ClaimLoop(devs, order, i, requested, got) ==
    IF i > Len(order) THEN [devices |-> devs, got |-> got]
    ELSE IF Len(got) = requested THEN [devices |-> devs, got |-> got]
    ELSE IF devs[order[i]] = ClaimStatusFree
         THEN ClaimLoop([devs EXCEPT ![order[i]] = ClaimStatusClaimed], order, i + 1,
                        requested, Append(got, order[i]))
         ELSE ClaimLoop(devs, order, i + 1, requested, got)

\* gpuClaimPlugin.Claim: the result for one iteration order of the map
GpuPluginClaim(devs, quantity, order) ==
    IF ~canClaim(devs, quantity)
    THEN [devices |-> devs, claim |-> NilClaim, err |-> ErrInsufficientResources]
    ELSE LET r == ClaimLoop(devs, order, 1, quantity, <<>>)
         IN  [devices |-> r.devices, claim |-> GpuClaim(r.got), err |-> NoErr]

\* ReleaseLoop without the test for addresses the plugin does not track
RECURSIVE ReleaseLoopNoSkip(_, _, _)
ReleaseLoopNoSkip(devs, addrs, i) ==
    IF i > Len(addrs) THEN devs
    ELSE ReleaseLoopNoSkip([a \in DOMAIN devs \cup {addrs[i]} |->
                               IF a = addrs[i] THEN ClaimStatusFree ELSE devs[a]],
                           addrs, i + 1)

\* ReleaseLoop returning after the first address of the claim
RECURSIVE ReleaseLoopFirst(_, _, _)
ReleaseLoopFirst(devs, addrs, i) ==
    IF i > Len(addrs) THEN devs
    ELSE IF addrs[i] \notin DOMAIN devs
         THEN devs
         ELSE [devs EXCEPT ![addrs[i]] = ClaimStatusFree]

\* the loop of gpuClaimPlugin.Release over the claim's addresses
RECURSIVE ReleaseLoop(_, _, _)
ReleaseLoop(devs, addrs, i) ==
    IF i > Len(addrs) THEN devs
    ELSE IF addrs[i] \notin DOMAIN devs
         THEN ReleaseLoop(devs, addrs, i + 1)
         ELSE ReleaseLoop([devs EXCEPT ![addrs[i]] = ClaimStatusFree], addrs, i + 1)

\* gpuClaimPlugin.Release without the type assertion on the claim
GpuPluginReleaseUnchecked(devs, resourceClaim) ==
    [devices |-> ReleaseLoop(devs, resourceClaim.devices, 1), err |-> NoErr]

\* gpuClaimPlugin.Release refusing a claim with a device that is not Claimed
GpuPluginReleaseStrict(devs, resourceClaim) ==
    IF resourceClaim.variant # "gpu"
    THEN [devices |-> devs, err |-> ErrInvalidResourceClaim]
    ELSE IF \E a \in SeqSet(resourceClaim.devices) :
                a \in DOMAIN devs /\ devs[a] = ClaimStatusFree
    THEN [devices |-> devs, err |-> Err("device not claimed")]
    ELSE [devices |-> ReleaseLoop(devs, resourceClaim.devices, 1), err |-> NoErr]

\* gpuClaimPlugin.Release setting every device of the pool Free
GpuPluginReleaseAll(devs, resourceClaim) ==
    IF resourceClaim.variant # "gpu"
    THEN [devices |-> devs, err |-> ErrInvalidResourceClaim]
    ELSE [devices |-> [a \in DOMAIN devs |-> ClaimStatusFree], err |-> NoErr]

\* gpuClaimPlugin.Release
GpuPluginRelease(devs, resourceClaim) ==
    IF resourceClaim.variant # "gpu"
    THEN [devices |-> devs, err |-> ErrInvalidResourceClaim]
    ELSE [devices |-> ReleaseLoop(devs, resourceClaim.devices, 1), err |-> NoErr]

\* PreClaimLoop without the test for addresses that were not discovered
RECURSIVE PreClaimLoopNoSkip(_, _, _)
PreClaimLoopNoSkip(devs, preClaimed, i) ==
    IF i > Len(preClaimed) THEN devs
    ELSE PreClaimLoopNoSkip([a \in DOMAIN devs \cup {preClaimed[i]} |->
                                IF a = preClaimed[i] THEN ClaimStatusClaimed ELSE devs[a]],
                            preClaimed, i + 1)

\* the second loop of gpuClaimPlugin.Init: mark the pre-claimed addresses
RECURSIVE PreClaimLoop(_, _, _)
PreClaimLoop(devs, preClaimed, i) ==
    IF i > Len(preClaimed) THEN devs
    ELSE IF preClaimed[i] \notin DOMAIN devs
         THEN PreClaimLoop(devs, preClaimed, i + 1)
         ELSE PreClaimLoop([devs EXCEPT ![preClaimed[i]] = ClaimStatusClaimed], preClaimed, i + 1)

\* gpuClaimPlugin.Init for a reader [nil, err, devices] and a pre-claimed list
GpuPluginInit(reader, preClaimed) ==
    IF reader.nil THEN [devices |-> EmptyMap, err |-> Err("no reader provided")]
    ELSE IF reader.err THEN [devices |-> EmptyMap, err |-> Err("failed to read pci devices")]
    ELSE [devices |-> PreClaimLoop([a \in SeqSet(reader.devices) |-> ClaimStatusFree], preClaimed, 1),
          err |-> NoErr]


\* ------------------------------------------------------------------ state
VARIABLES
    plugins,      \* claimer.plugins: name -> plugin (kind, devices map)
    toClaim,      \* chan claimReq, capacity QueueDepth
    toRelease,    \* chan releaseReq, capacity QueueDepth
    startOnce,    \* claimer.startOnce has run
    started,      \* claimer.started is closed
    shutdown,     \* claimer.shutdown is closed
    ctxDone,      \* the context given to Start is done
    loopPc,       \* position of the goroutine running claimer.start
    inproc,       \* requests received by the loop and not yet answered
    calls,        \* the Claim/Release calls: position, arguments, context
    resultChan,   \* each request's resultChan, capacity ResultDepth
    ret,          \* the latest return of a Claim/Release call
    outstanding,  \* Claims maps returned by Claim and held by their callers
    issued,       \* per device pool: addresses handed out since its last Release
    startPc,      \* position of the Start call that launched the loop
    waitPc,       \* position of a WaitUntilStarted call
    pool,         \* a device-pool plugin called directly, with its last two calls
    passed,       \* the Claims maps in `outstanding` that were passed to Release before
    built,        \* the call of NewResourceClaimer: its arguments and results
    store         \* an event store: ring buffer, clock, and its last call

vars == <<plugins, toClaim, toRelease, startOnce, started, shutdown, ctxDone,
          loopPc, inproc, calls, resultChan, ret, outstanding, issued, startPc, waitPc,
          pool, passed, built, store>>

CallIds == 1..MaxCalls

Registered == DOMAIN plugins
PoolNames == {n \in DOMAIN plugins : plugins[n].kind = "pool"}
\* the device maps of all device-pool plugins
Pools == [n \in PoolNames |-> plugins[n].devices]

\* the units the plugins of another implementation have handed out
Units == [n \in DOMAIN plugins \ PoolNames |-> plugins[n].held]

Result(claims, err) == [claims |-> claims, err |-> err]
\* a return of call id: its values, the return statement (via), and for the
\* returns before the request is built the lifecycle state they saw (life)
NoRet == [id |-> 0, kind |-> "none", claims |-> NilClaims, err |-> NoErr, via |-> "none",
          life |-> "none"]
Ret(id, kind, claims, err, via, life) ==
    [id |-> id, kind |-> kind, claims |-> claims, err |-> err, via |-> via, life |-> life]

\* the requests sent on toClaim / toRelease; resultChan[id] is the request's
\* result channel
claimReq(id, resources) == [id |-> id, resources |-> resources]
releaseReq(id, claims) == [id |-> id, claims |-> claims]

NewCall == [pc |-> "new", kind |-> "none", resources |-> EmptyMap, claims |-> EmptyMap]
\* a call that has returned
DoneCall == [pc |-> "done", kind |-> "none", resources |-> EmptyMap, claims |-> EmptyMap]

Lifecycle == IF ~started THEN "created" ELSE IF ~shutdown THEN "running" ELSE "shutdown"

\* NewGPUClaimPlugin followed by Init: a device-pool plugin over the
\* addresses its reader discovers
PoolPlugin(discovered, preClaimed) ==
    [kind |-> "pool", preClaimed |-> preClaimed, held |-> 0,
     claimFails |-> FALSE, releaseFails |-> FALSE,
     devices |-> GpuPluginInit([nil |-> FALSE, err |-> FALSE, devices |-> discovered], preClaimed).devices]

\* a plugin of another implementation of the Plugin interface, which keeps
\* no device map but a count of the units it has handed out: CanClaim
\* answers yes, and Claim or Release may return an error
ExtPlugin(claimFails, releaseFails) ==
    [kind |-> "ext", preClaimed |-> <<>>, held |-> 0, devices |-> EmptyMap,
     claimFails |-> claimFails, releaseFails |-> releaseFails]

\* the pre-claimed list the gpu pool is constructed with: one discovered
\* and one undiscovered address
PreClaimedLists == {<<5, 9>>}

\* a call made directly on a device-pool plugin: the method, its argument,
\* its results, and the device map before and after it
PoolCall(op, quantity, claim, err, can, before, after) ==
    [op |-> op, quantity |-> quantity, claim |-> claim, err |-> err, can |-> can,
     before |-> before, after |-> after]

NoCall == PoolCall("none", 0, NilClaim, NoErr, FALSE, EmptyMap, EmptyMap)

\* no event store is in use
NoStore == [maxEvents |-> 0]

\* the arguments of NewResourceClaimer are not recorded
NoBuild == [plugins |-> <<>>]

\* no device-pool plugin is called directly
NoPool == [devices |-> EmptyMap, last |-> NoCall, prev |-> NoCall,
           init |-> [reader |-> [nil |-> TRUE, err |-> FALSE, devices |-> <<>>],
                     preClaimed |-> <<>>, err |-> NoErr, devices |-> EmptyMap]]

\* what the reader of such a plugin may return: the addresses 1..k, in
\* this order
Discovered == {[i \in 1..k |-> i] : k \in 0..MaxDevices}

\* the pci.Reader values such a plugin may be constructed with: nil, a
\* reader whose Read fails, and readers returning the addresses 1..k
Readers ==
    {[nil |-> TRUE, err |-> FALSE, devices |-> <<>>],
     [nil |-> FALSE, err |-> TRUE, devices |-> <<>>]}
    \cup {[nil |-> FALSE, err |-> FALSE, devices |-> d] : d \in Discovered}

\* pre-claimed lists such a plugin may be constructed with; the address
\* MaxDevices + 1 is never discovered
PoolPreClaimed == {<<>>, <<1>>, <<2, MaxDevices + 1>>}

\* the quantities passed to CanClaim and Claim (quantity.Value())
Quantities == (0 - 1)..(MaxDevices + 1)

\* the claims passed to Release: of the plugin's variant with up to two
\* addresses (tracked or not, possibly repeated), the claims its last two
\* calls returned, a claim of another variant, and nil
ReleaseClaims ==
    {GpuClaim(<<>>)}
    \cup {GpuClaim(<<a>>) : a \in 1..(MaxDevices + 1)}
    \cup {GpuClaim(<<a, b>>) : a, b \in {1, MaxDevices, MaxDevices + 1}}
    \cup {pool.last.claim, pool.prev.claim, ExtClaim, NilClaim}

InitCommon ==
    /\ toClaim = <<>>
    /\ toRelease = <<>>
    /\ startOnce = FALSE
    /\ started = FALSE
    /\ shutdown = FALSE
    /\ ctxDone = FALSE
    /\ loopPc = "none"
    /\ inproc = {}
    /\ calls = [i \in CallIds |-> NewCall]
    /\ resultChan = [i \in CallIds |-> <<>>]
    /\ ret = NoRet
    /\ outstanding = {}
    /\ issued = [n \in PoolNames |-> {}]
    /\ startPc = "none"
    /\ waitPc = "none"
    /\ passed = {}

\* NewResourceClaimer with two device-pool plugins
Init ==
    /\ \E pre \in PreClaimedLists :
          plugins = [n \in {"gpu", "nic"} |->
                        IF n = "gpu" THEN PoolPlugin(<<1, 2, 5>>, pre) ELSE PoolPlugin(<<3>>, <<>>)]
    /\ InitCommon
    /\ pool = NoPool
    /\ built = NoBuild
    /\ store = NoStore

\* NewResourceClaimer with one device-pool plugin and two plugins of other
\* implementations: the Release of "ext" may fail, the Claim of "aux" may
InitExt ==
    /\ plugins = [n \in {"gpu", "ext", "aux"} |->
                     IF n = "gpu" THEN PoolPlugin(<<1>>, <<>>)
                     ELSE IF n = "ext" THEN ExtPlugin(FALSE, TRUE)
                     ELSE ExtPlugin(TRUE, FALSE)]
    /\ InitCommon
    /\ pool = NoPool
    /\ built = NoBuild
    /\ store = NoStore

\* ------------------------------------------------------- plugin dispatch
\* CanClaimAnswers as if the answers were not taken from the device maps
\* the Claim calls of the same request work on
CanClaimAnswersYes(resources) == {[n \in DOMAIN resources |-> TRUE]}

\* Plugin.CanClaim: the answers the named plugins may give for `resources`
CanClaimAnswers(resources) ==
    {can \in [DOMAIN resources -> BOOLEAN] :
        \A n \in DOMAIN resources :
            can[n] = (plugins[n].kind = "pool" => canClaim(plugins[n].devices, resources[n]))}

\* Plugin.Claim: the outcomes plugin p may produce for a quantity
PluginClaimOutcomes(p, quantity) ==
    IF p.kind = "pool"
    THEN {[devices |-> g.devices, held |-> p.held, claim |-> g.claim, err |-> g.err] :
             g \in {GpuPluginClaim(p.devices, quantity, o) : o \in Orders(DOMAIN p.devices)}}
    ELSE {[devices |-> p.devices, held |-> p.held + 1, claim |-> ExtClaim, err |-> NoErr]}
         \cup IF p.claimFails
              THEN {[devices |-> p.devices, held |-> p.held, claim |-> NilClaim,
                     err |-> ErrPluginClaim]}
              ELSE {}

\* Plugin.Release: the outcomes plugin p may produce for a claim
PluginReleaseOutcomes(p, resourceClaim) ==
    IF p.kind = "pool"
    THEN {[devices |-> g.devices, held |-> p.held, err |-> g.err] :
             g \in {GpuPluginRelease(p.devices, resourceClaim)}}
    ELSE {[devices |-> p.devices, held |-> IF p.held > 0 THEN p.held - 1 ELSE 0, err |-> NoErr]}
         \cup IF p.releaseFails
              THEN {[devices |-> p.devices, held |-> p.held, err |-> Err("PluginReleaseError")]}
              ELSE {}


\* ------------------------------------------------------- the command loop
\* a request inside a case body of the loop: the locals of claimer.claim /
\* claimer.release (names still to visit, claims so far, errors so far),
\* the result to send, the names plugin.Release has been called for, and the
\* device maps as they were when the request was received
Work(id, kind, resources, phase, todo, claims, res) ==
    [id |-> id, kind |-> kind, resources |-> resources, phase |-> phase, todo |-> todo,
     claims |-> claims, released |-> {}, failed |-> {}, trigger |-> NoErr, res |-> res,
     pre |-> Pools, preUnits |-> Units]

NoRes == Result(NilClaims, NoErr)

\* SelectReady as if the case bodies ran in goroutines of their own
SelectReadyAsync == loopPc = "select"

\* the loop is at its select and not inside a case body: c.claim and
\* c.release are called synchronously, so the select is reached again only
\* after the result of the request has been sent
SelectReady == loopPc = "select" /\ inproc = {}

\* OnceRuns as if startOnce.Do ran its function in every call
OnceRunsAlways == TRUE

\* c.startOnce.Do(f): f runs only in the first call of Do
OnceRuns == ~startOnce

\* claimer.Start: startOnce.Do launches the goroutine running start, and the
\* call then blocks on <-ctx.Done()
StartCall ==
    /\ OnceRuns
    /\ startOnce' = TRUE
    /\ loopPc' = "begin"
    /\ startPc' = "blocked"
    /\ UNCHANGED <<plugins, toClaim, toRelease, started, shutdown, ctxDone, inproc,
                   calls, resultChan, ret, outstanding, issued, waitPc, pool,
                   passed, built, store>>

\* the owner of the context given to Start cancels it
CancelStart ==
    /\ startOnce
    /\ ~ctxDone
    /\ ctxDone' = TRUE
    /\ UNCHANGED <<plugins, toClaim, toRelease, startOnce, started, shutdown, loopPc,
                   inproc, calls, resultChan, ret, outstanding, issued,
                   startPc, waitPc, pool,
                   passed, built, store>>

\* claimer.start: close(c.started)
LoopBegin ==
    /\ loopPc = "begin"
    /\ started' = TRUE
    /\ loopPc' = "select"
    /\ UNCHANGED <<plugins, toClaim, toRelease, startOnce, shutdown, ctxDone, inproc,
                   calls, resultChan, ret, outstanding, issued,
                   startPc, waitPc, pool,
                   passed, built, store>>

\* claimer.start, case <-ctx.Done(): close(c.shutdown) and return into the
\* deferred function
LoopShutdown ==
    /\ SelectReady
    /\ ctxDone
    /\ shutdown' = TRUE
    /\ loopPc' = "drain"
    /\ UNCHANGED <<plugins, toClaim, toRelease, startOnce, started, ctxDone, inproc,
                   calls, resultChan, ret, outstanding, issued,
                   startPc, waitPc, pool,
                   passed, built, store>>

\* Short as if claimer.claim had no CanClaim loop
ShortNone(resources, can) == {}

\* the first loop of claimer.claim: the names whose plugin cannot claim
\* the requested quantity, for the answers `can`
Short(resources, can) == {n \in DOMAIN resources : ~can[n]}

\* claimer.start, case req := <-c.toClaim, and the CanClaim loop of
\* claimer.claim (no plugin is changed by it)
LoopRecvClaim ==
    /\ SelectReady
    /\ toClaim # <<>>
    /\ LET id == Head(toClaim).id
           resources == Head(toClaim).resources
       IN  /\ toClaim' = Tail(toClaim)
           /\ \E can \in CanClaimAnswers(resources) :
                LET short == Short(resources, can)
                IN  inproc' =
                      IF short # {}
                      THEN {Work(id, "claim", resources, "answer", {}, EmptyMap,
                                 Result(NilClaims, ErrOn("InsufficientResources", short)))}
                      ELSE IF DOMAIN resources = {}
                      THEN {Work(id, "claim", resources, "answer", {}, EmptyMap,
                                 Result(SomeClaims(EmptyMap), NoErr))}
                      ELSE {Work(id, "claim", resources, "claim", DOMAIN resources, EmptyMap, NoRes)}
    /\ UNCHANGED <<plugins, toRelease, startOnce, started, shutdown, ctxDone, loopPc,
                   calls, resultChan, ret, outstanding, issued,
                   startPc, waitPc, pool,
                   passed, built, store>>

\* the second loop of claimer.claim: one plugin.Claim call, for the next
\* name the range over the map yields
ClaimStep ==
    /\ loopPc = "select"
    /\ \E w \in inproc :
         /\ w.phase = "claim"
         /\ \E n \in w.todo :
              \E r \in PluginClaimOutcomes(plugins[n], w.resources[n]) :
                 /\ plugins' = [plugins EXCEPT ![n].devices = r.devices, ![n].held = r.held]
                 /\ issued' = IF n \in PoolNames
                               THEN [issued EXCEPT ![n] = @ \cup SeqSet(r.claim.devices)]
                               ELSE issued
                 /\ inproc' = (inproc \ {w}) \cup
                      {IF r.err # NoErr
                       THEN IF DOMAIN w.claims = {}
                            THEN [w EXCEPT !.phase = "answer", !.todo = {}, !.trigger = r.err,
                                           !.res = Result(NilClaims, r.err)]
                            ELSE [w EXCEPT !.phase = "rollback", !.todo = DOMAIN w.claims,
                                           !.trigger = r.err]
                       ELSE IF w.todo = {n}
                            THEN [w EXCEPT !.phase = "answer", !.todo = {},
                                           !.claims = MapPut(w.claims, n, r.claim),
                                           !.res = Result(SomeClaims(MapPut(w.claims, n, r.claim)), NoErr)]
                            ELSE [w EXCEPT !.todo = w.todo \ {n},
                                           !.claims = MapPut(w.claims, n, r.claim)]}
    /\ UNCHANGED <<toClaim, toRelease, startOnce, started, shutdown, ctxDone, loopPc,
                   calls, resultChan, ret, outstanding,
                   startPc, waitPc, pool,
                   passed, built, store>>

\* ReleaseResult as if a failed rollback replaced the triggering error
ReleaseResultMasked(w, failed) ==
    IF failed # {} THEN Result(NilClaims, ErrReleaseClaim(failed))
    ELSE IF w.phase = "rollback" THEN Result(NilClaims, w.trigger)
    ELSE NoRes

\* what the loop answers once claimer.release has returned: for a rollback
\* the triggering claim error, for a Release request the joined error or nil
ReleaseResult(w, failed) ==
    IF w.phase = "rollback" THEN Result(NilClaims, w.trigger)
    ELSE IF failed # {} THEN Result(NilClaims, ErrReleaseClaim(failed))
    ELSE NoRes

\* ReleaseTodo as if claimer.release returned at the first failed entry
ReleaseTodoStop(todo, n, err) == IF err # NoErr THEN {} ELSE todo \ {n}

\* claimer.release: the entries the range still visits after plugin.Release
\* for entry n returned err; an error is appended and the range goes on
ReleaseTodo(todo, n, err) == todo \ {n}

\* claimer.release: one plugin.Release call, for the next entry of the map
ReleaseStep ==
    /\ loopPc = "select"
    /\ \E w \in inproc :
         /\ w.phase \in {"rollback", "release"}
         /\ \E n \in w.todo :
              \E r \in PluginReleaseOutcomes(plugins[n], w.claims[n]) :
                 LET failed == IF r.err # NoErr THEN w.failed \cup {n} ELSE w.failed
                     rest == ReleaseTodo(w.todo, n, r.err)
                 IN  /\ plugins' = [plugins EXCEPT ![n].devices = r.devices, ![n].held = r.held]
                     /\ issued' = IF n \in PoolNames THEN [issued EXCEPT ![n] = {}] ELSE issued
                     /\ inproc' = (inproc \ {w}) \cup
                          {IF rest = {}
                           THEN [w EXCEPT !.todo = {}, !.failed = failed,
                                          !.released = @ \cup {n},
                                          !.res = ReleaseResult(w, failed), !.phase = "answer"]
                           ELSE [w EXCEPT !.todo = rest, !.failed = failed,
                                          !.released = @ \cup {n}]}
    /\ UNCHANGED <<toClaim, toRelease, startOnce, started, shutdown, ctxDone, loopPc,
                   calls, resultChan, ret, outstanding,
                   startPc, waitPc, pool,
                   passed, built, store>>

\* claimer.start, case req := <-c.toRelease
LoopRecvRelease ==
    /\ SelectReady
    /\ toRelease # <<>>
    /\ LET id == Head(toRelease).id
           claims == Head(toRelease).claims
       IN  /\ toRelease' = Tail(toRelease)
           /\ inproc' = IF DOMAIN claims = {}
                        THEN {Work(id, "release", EmptyMap, "answer", {}, claims, NoRes)}
                        ELSE {Work(id, "release", EmptyMap, "release", DOMAIN claims, claims, NoRes)}
    /\ UNCHANGED <<plugins, toClaim, startOnce, started, shutdown, ctxDone, loopPc,
                   calls, resultChan, ret, outstanding, issued,
                   startPc, waitPc, pool,
                   passed, built, store>>

\* claimer.start: req.resultChan <- res
LoopAnswer ==
    /\ loopPc = "select"
    /\ \E w \in inproc :
         /\ w.phase = "answer"
         /\ Len(resultChan[w.id]) < ResultDepth
         /\ resultChan' = [resultChan EXCEPT ![w.id] = Append(@, w.res)]
         /\ inproc' = inproc \ {w}
    /\ UNCHANGED <<plugins, toClaim, toRelease, startOnce, started, shutdown, ctxDone,
                   loopPc, calls, ret, outstanding, issued,
                   startPc, waitPc, pool,
                   passed, built, store>>

\* the deferred function of claimer.start: for req := range c.toClaim.
\* The range ends only when c.toClaim is closed, and the only close is the
\* one after both range loops, so the loop stays in this range for good:
\* the range over c.toRelease and the two closes are never reached.
DrainClaim ==
    /\ loopPc = "drain"
    /\ toClaim # <<>>
    /\ LET id == Head(toClaim).id
       IN  /\ Len(resultChan[id]) < ResultDepth
           /\ resultChan' = [resultChan EXCEPT ![id] = Append(@, Result(NilClaims, StartCtxErr))]
           /\ toClaim' = Tail(toClaim)
    /\ UNCHANGED <<plugins, toRelease, startOnce, started, shutdown, ctxDone, loopPc,
                   inproc, calls, ret, outstanding, issued,
                   startPc, waitPc, pool,
                   passed, built, store>>


\* ------------------------------------------------------------ the callers
\* MissingPlugins as if the plugin check were skipped
MissingPluginsNone(m) == {}

\* claimer.checkPluginsForResources / checkPluginsForClaims: the names of
\* the map that have no plugin
MissingPlugins(m) == {n \in DOMAIN m : n \notin DOMAIN plugins}

\* ensureRunning without the test of c.started
ensureRunningNoStarted == IF shutdown THEN ErrNotStarted ELSE NoErr

\* claimer.ensureRunning: started is closed and shutdown is not
ensureRunning == IF ~started THEN ErrNotStarted ELSE IF shutdown THEN ErrNotStarted ELSE NoErr

\* calls are numbered in the order in which they are made
MayBegin(i) == calls[i].pc = "new" /\ (IF i = 1 THEN TRUE ELSE calls[i - 1].pc # "new")

\* Claims maps naming a resource without a plugin
ForeignClaims ==
    {MapPut(m, u, GpuClaim(<<>>)) : m \in outstanding \cup {EmptyMap}, u \in Names \ DOMAIN plugins}

\* a Claims map whose "gpu" entry is a claim of another plugin's variant
MistypedClaims == {[n \in {"gpu"} |-> ExtClaim]}

\* the Claims maps callers pass to Release: one they hold, an empty one,
\* one naming a resource without a plugin, or one with an entry of the
\* wrong variant
ReleaseArgs == outstanding \cup {EmptyMap} \cup ForeignClaims \cup MistypedClaims

\* a call returns an error: the Claims map of a failed Release stays with
\* its caller, to be released again
Return(i, err, via) ==
    /\ ret' = Ret(i, calls[i].kind, NilClaims, err, via, "none")
    /\ calls' = [calls EXCEPT ![i] = DoneCall]
    /\ outstanding' = IF calls[i].kind = "release" /\ err # NoErr /\ calls[i].claims # EmptyMap
                      THEN outstanding \cup {calls[i].claims}
                      ELSE outstanding
    /\ passed' = IF calls[i].kind = "release" /\ err # NoErr /\ calls[i].claims # EmptyMap
                 THEN passed \cup {calls[i].claims}
                 ELSE passed

\* claimer.Claim up to the first select: plugin check, running check
BeginClaim(i, resources) ==
    /\ MayBegin(i)
    /\ LET missing == MissingPlugins(resources)
       IN  IF missing # {}
           THEN /\ calls' = [calls EXCEPT ![i] = DoneCall]
                /\ ret' = Ret(i, "claim", NilClaims, ErrMissingPlugins(missing), "check", Lifecycle)
           ELSE IF ensureRunning # NoErr
           THEN /\ calls' = [calls EXCEPT ![i] = DoneCall]
                /\ ret' = Ret(i, "claim", NilClaims, ensureRunning, "running", Lifecycle)
           ELSE /\ calls' = [calls EXCEPT ![i].pc = "send", ![i].kind = "claim",
                                          ![i].resources = resources]
                /\ ret' = ret
    /\ UNCHANGED <<plugins, toClaim, toRelease, startOnce, started, shutdown, ctxDone,
                   loopPc, inproc, resultChan, outstanding, issued,
                   startPc, waitPc, pool,
                   passed, built, store>>

\* claimer.Release up to the first select: plugin check, running check
BeginRelease(i, claims) ==
    /\ MayBegin(i)
    /\ LET missing == MissingPlugins(claims)
       IN  IF missing # {}
           THEN /\ calls' = [calls EXCEPT ![i] = DoneCall]
                /\ ret' = Ret(i, "release", NilClaims, ErrMissingPlugins(missing), "check", Lifecycle)
                /\ outstanding' = outstanding
                /\ passed' = passed \cup ({claims} \cap outstanding)
           ELSE IF ensureRunning # NoErr
           THEN /\ calls' = [calls EXCEPT ![i] = DoneCall]
                /\ ret' = Ret(i, "release", NilClaims, ensureRunning, "running", Lifecycle)
                /\ outstanding' = outstanding
                /\ passed' = passed \cup ({claims} \cap outstanding)
           ELSE /\ calls' = [calls EXCEPT ![i].pc = "send", ![i].kind = "release",
                                          ![i].claims = claims]
                /\ ret' = ret
                /\ outstanding' = outstanding \ {claims}
                /\ passed' = passed \ {claims}
    /\ UNCHANGED <<plugins, toClaim, toRelease, startOnce, started, shutdown, ctxDone,
                   loopPc, inproc, resultChan, issued,
                   startPc, waitPc, pool,
                   built, store>>

\* first select of Claim/Release, case c.toClaim <- req / c.toRelease <- req
SendReq(i) ==
    /\ calls[i].pc = "send"
    /\ IF calls[i].kind = "claim"
       THEN /\ Len(toClaim) < QueueDepth
            /\ toClaim' = Append(toClaim, claimReq(i, calls[i].resources))
            /\ toRelease' = toRelease
       ELSE /\ Len(toRelease) < QueueDepth
            /\ toRelease' = Append(toRelease, releaseReq(i, calls[i].claims))
            /\ toClaim' = toClaim
    /\ calls' = [calls EXCEPT ![i].pc = "wait"]
    /\ UNCHANGED <<plugins, startOnce, started, shutdown, ctxDone, loopPc, inproc,
                   resultChan, ret, outstanding, issued,
                   startPc, waitPc, pool,
                   passed, built, store>>

\* first select, case <-c.shutdown
SendShutdown(i) ==
    /\ calls[i].pc = "send"
    /\ shutdown
    /\ Return(i, ErrNotStarted, "shutdown")
    /\ UNCHANGED <<plugins, toClaim, toRelease, startOnce, started, shutdown, ctxDone,
                   loopPc, inproc, resultChan, issued,
                   startPc, waitPc, pool,
                   built, store>>

\* first select, case <-ctx.Done(): the owner of the call's context has
\* cancelled it and the select takes this case
SendCanceled(i) ==
    /\ calls[i].pc = "send"
    /\ Return(i, CallCtxErr, "ctx")
    /\ UNCHANGED <<plugins, toClaim, toRelease, startOnce, started, shutdown, ctxDone,
                   loopPc, inproc, resultChan, issued,
                   startPc, waitPc, pool,
                   built, store>>

\* WaitCanceled as if the cancellation also withdrew the request from the loop
WaitCanceledAborting(i) ==
    /\ calls[i].pc = "wait"
    /\ Return(i, CallCtxErr, "ctx")
    /\ inproc' = {w \in inproc : w.id # i}
    /\ UNCHANGED <<plugins, toClaim, toRelease, startOnce, started, shutdown, ctxDone,
                   loopPc, resultChan, issued, startPc, waitPc, pool, built, store>>

\* WaitCanceled as if the second select had no case <-ctx.Done()
WaitCanceledNever(i) == FALSE /\ UNCHANGED vars

\* second select, case <-ctx.Done(): the owner of the call's context has
\* cancelled it and the select takes this case
WaitCanceled(i) ==
    /\ calls[i].pc = "wait"
    /\ Return(i, CallCtxErr, "ctx")
    /\ UNCHANGED <<plugins, toClaim, toRelease, startOnce, started, shutdown, ctxDone,
                   loopPc, inproc, resultChan, issued,
                   startPc, waitPc, pool,
                   built, store>>

\* second select, case res := <-req.resultChan
WaitResult(i) ==
    /\ calls[i].pc = "wait"
    /\ resultChan[i] # <<>>
    /\ LET res == Head(resultChan[i])
       IN  /\ resultChan' = [resultChan EXCEPT ![i] = Tail(@)]
           /\ ret' = Ret(i, calls[i].kind, res.claims, res.err, "result", "none")
           /\ calls' = [calls EXCEPT ![i] = DoneCall]
           /\ outstanding' =
                IF calls[i].kind = "claim" /\ res.claims # NilClaims
                THEN outstanding \cup {res.claims[1]}
                ELSE IF calls[i].kind = "release" /\ res.err # NoErr /\ calls[i].claims # EmptyMap
                THEN outstanding \cup {calls[i].claims}
                ELSE outstanding
           /\ passed' =
                IF calls[i].kind = "claim" /\ res.claims # NilClaims
                THEN passed \ {res.claims[1]}
                ELSE IF calls[i].kind = "release" /\ res.err # NoErr /\ calls[i].claims # EmptyMap
                THEN passed \cup {calls[i].claims}
                ELSE passed
    /\ UNCHANGED <<plugins, toClaim, toRelease, startOnce, started, shutdown, ctxDone,
                   loopPc, inproc, issued,
                   startPc, waitPc, pool,
                   built, store>>

\* claimer.Start called when startOnce.Do has run before: called stays false
\* and the call returns ErrAlreadyStarted
StartAgain ==
    /\ ~OnceRuns
    /\ ret' = Ret(0, "start", NilClaims, ErrAlreadyStarted, "once", Lifecycle)
    /\ UNCHANGED <<plugins, toClaim, toRelease, startOnce, started, shutdown, ctxDone,
                   loopPc, inproc, calls, resultChan, outstanding, issued,
                   startPc, waitPc, pool,
                   passed, built, store>>

\* claimer.Start, the call that launched the loop: <-ctx.Done() and return nil
StartReturn ==
    /\ startPc = "blocked"
    /\ ctxDone
    /\ startPc' = "nil"
    /\ UNCHANGED <<plugins, toClaim, toRelease, startOnce, started, shutdown, ctxDone,
                   loopPc, inproc, calls, resultChan, ret, outstanding, issued,
                   waitPc, pool,
                   passed, built, store>>

\* claimer.WaitUntilStarted is called and reaches its select
WaitCall ==
    /\ waitPc = "none"
    /\ waitPc' = "select"
    /\ UNCHANGED <<plugins, toClaim, toRelease, startOnce, started, shutdown, ctxDone,
                   loopPc, inproc, calls, resultChan, ret, outstanding, issued,
                   startPc, pool,
                   passed, built, store>>

\* WaitStarted as if the case did not wait for c.started to be closed
WaitStartedEarly ==
    /\ waitPc = "select"
    /\ waitPc' = "nil"
    /\ UNCHANGED <<plugins, toClaim, toRelease, startOnce, started, shutdown, ctxDone,
                   loopPc, inproc, calls, resultChan, ret, outstanding, issued,
                   startPc, pool,
                   passed, built, store>>

\* claimer.WaitUntilStarted, case <-c.started: return nil
WaitStarted ==
    /\ waitPc = "select"
    /\ started
    /\ waitPc' = "nil"
    /\ UNCHANGED <<plugins, toClaim, toRelease, startOnce, started, shutdown, ctxDone,
                   loopPc, inproc, calls, resultChan, ret, outstanding, issued,
                   startPc, pool,
                   passed, built, store>>

\* claimer.WaitUntilStarted, case <-ctx.Done(): the owner of the call's
\* context has cancelled it and the select takes this case
WaitUntilCanceled ==
    /\ waitPc = "select"
    /\ waitPc' = "ctx"
    /\ UNCHANGED <<plugins, toClaim, toRelease, startOnce, started, shutdown, ctxDone,
                   loopPc, inproc, calls, resultChan, ret, outstanding, issued,
                   startPc, pool,
                   passed, built, store>>

\* ------------------------------------------- a device pool called directly
\* NewGPUClaimPlugin and Init (which may fail), no Claimer around the plugin
PoolInit ==
    /\ plugins = EmptyMap
    /\ InitCommon
    /\ built = NoBuild
    /\ store = NoStore
    /\ \E reader \in Readers : \E pre \in PoolPreClaimed :
          LET r == GpuPluginInit(reader, pre)
          IN  pool = [devices |-> r.devices, last |-> NoCall, prev |-> NoCall,
                      init |-> [reader |-> reader, preClaimed |-> pre, err |-> r.err,
                                devices |-> r.devices]]

\* the plugin after a call: the call becomes its last call
AfterCall(call) ==
    [devices |-> call.after, last |-> call, prev |-> pool.last, init |-> pool.init]

\* gpuClaimPlugin.CanClaim
PoolCanClaim(quantity) ==
    /\ pool' = AfterCall(PoolCall("CanClaim", quantity, NilClaim, NoErr,
                                  canClaim(pool.devices, quantity), pool.devices, pool.devices))
    /\ UNCHANGED <<plugins, toClaim, toRelease, startOnce, started, shutdown, ctxDone,
                   loopPc, inproc, calls, resultChan, ret, outstanding, issued, startPc,
                   waitPc,
                   passed, built, store>>

\* gpuClaimPlugin.Claim
PoolClaim(quantity) ==
    /\ \E r \in {GpuPluginClaim(pool.devices, quantity, order) :
                    order \in Orders(DOMAIN pool.devices)} :
              pool' = AfterCall(PoolCall("Claim", quantity, r.claim, r.err, FALSE,
                                         pool.devices, r.devices))
    /\ UNCHANGED <<plugins, toClaim, toRelease, startOnce, started, shutdown, ctxDone,
                   loopPc, inproc, calls, resultChan, ret, outstanding, issued, startPc,
                   waitPc,
                   passed, built, store>>

\* gpuClaimPlugin.Release
PoolRelease(resourceClaim) ==
    /\ LET r == GpuPluginRelease(pool.devices, resourceClaim)
       IN  pool' = AfterCall(PoolCall("Release", 0, resourceClaim, r.err, FALSE,
                                      pool.devices, r.devices))
    /\ UNCHANGED <<plugins, toClaim, toRelease, startOnce, started, shutdown, ctxDone,
                   loopPc, inproc, calls, resultChan, ret, outstanding, issued, startPc,
                   waitPc,
                   passed, built, store>>

PoolNext ==
    \/ \E quantity \in Quantities : PoolCanClaim(quantity)
    \/ \E quantity \in Quantities : PoolClaim(quantity)
    \/ \E resourceClaim \in ReleaseClaims : PoolRelease(resourceClaim)

\* a device-pool plugin driven by any sequence of CanClaim, Claim and Release
PoolSpec == PoolInit /\ [][PoolNext]_vars

\* ---------------------------------------------------------- specification
Next ==
    \/ StartCall
    \/ CancelStart
    \/ LoopBegin
    \/ LoopShutdown
    \/ LoopRecvClaim
    \/ ClaimStep
    \/ ReleaseStep
    \/ LoopRecvRelease
    \/ LoopAnswer
    \/ DrainClaim
    \/ \E i \in CallIds : \E resources \in ResourceLists : BeginClaim(i, resources)
    \/ \E i \in CallIds : \E claims \in ReleaseArgs : BeginRelease(i, claims)
    \/ \E i \in CallIds : SendReq(i)
    \/ \E i \in CallIds : SendShutdown(i)
    \/ \E i \in CallIds : SendCanceled(i)
    \/ \E i \in CallIds : WaitCanceled(i)
    \/ \E i \in CallIds : WaitResult(i)

\* a Claimer whose plugins are all device pools
Spec == Init /\ [][Next]_vars

\* a Claimer that also has plugins of another implementation
SpecExt == InitExt /\ [][Next]_vars


\* NewResourceClaimer with one device-pool plugin of one device
InitLife ==
    /\ plugins = [n \in {"gpu"} |-> PoolPlugin(<<1>>, <<>>)]
    /\ InitCommon
    /\ pool = NoPool
    /\ built = NoBuild
    /\ store = NoStore

NextLife ==
    \/ Next
    \/ StartAgain
    \/ StartReturn
    \/ WaitCall
    \/ WaitStarted
    \/ WaitUntilCanceled

\* a Claimer with further Start calls and a WaitUntilStarted call
LifeSpec == InitLife /\ [][NextLife]_vars

\* the goroutine running claimer.start is scheduled as long as it can step
Loop ==
    \/ LoopBegin
    \/ LoopShutdown
    \/ LoopRecvClaim
    \/ ClaimStep
    \/ ReleaseStep
    \/ LoopRecvRelease
    \/ LoopAnswer
    \/ DrainClaim

FairSpec == Spec /\ WF_vars(Loop)

\* ============================================================ event store
\* the largest MachineEventMaxEvents a store is constructed with
MaxCapacity == 2

\* the number of Eventf calls made on a store
MaxRecords == 4

\* the last instant of the clock, in ticks; a second has two ticks
MaxTime == 4

\* time.Time.Unix of the instant `now`: whole seconds, the fraction dropped
Unix(now) == now \div 2

\* time.Unix(sec, 0): the instant at the beginning of second `sec`
TimeUnix(sec) == sec * 2

\* a nil *Event, and the event recorded by the id-th Eventf call
NilEvent == [id |-> 0, EventTime |-> 0]
Event(id, now) == [id |-> id, EventTime |-> Unix(now)]

\* a call made on the store: the method, the listing of the store before
\* it, the instant it was made at and, for ListEvents, its result
StoreCall(op, before, at, result) ==
    [op |-> op, before |-> before, at |-> at, result |-> result]

\* the values of MachineEventTTL a store is constructed with, in ticks
EventTTLs == 0..(MaxTime - 1)

\* NewEventStore: every slot of the buffer nil, head and count zero
NewEventStore(maxEvents, eventTTL) ==
    [maxEvents |-> maxEvents,
     events    |-> [index \in 0..(maxEvents - 1) |-> NilEvent],
     eventTTL  |-> eventTTL,
     head      |-> 0,
     count     |-> 0,
     now       |-> 0,
     recorded  |-> 0,
     last      |-> StoreCall("none", <<>>, 0, <<>>)]

\* recordEvent with the slot written one place too far
RecordIndexNext(es) == (es.head + es.count + 1) % es.maxEvents

\* recordEvent: the slot the new event is written to
RecordIndex(es) == (es.head + es.count) % es.maxEvents

\* recordEvent: a full buffer gives up its oldest slot, another one grows
recordEvent(es, event) ==
    LET index == RecordIndex(es)
        moved == IF es.count = es.maxEvents
                 THEN [es EXCEPT !.head = (es.head + 1) % es.maxEvents]
                 ELSE [es EXCEPT !.count = es.count + 1]
    IN  [moved EXCEPT !.events[index] = event]

\* removeExpiredEvents keeping an event for one tick less
UnexpiredLate(event, eventTTL, now) == TimeUnix(event.EventTime) + eventTTL > now + 1

\* removeExpiredEvents: eventTime.Add(es.eventTTL).After(now)
Unexpired(event, eventTTL, now) == TimeUnix(event.EventTime) + eventTTL > now

\* removeExpiredEvents without the assignment es.events[index] = nil
RECURSIVE removeExpiredEventsKeeping(_, _)
removeExpiredEventsKeeping(es, now) ==
    IF es.count > 0
    THEN LET index == es.head % es.maxEvents
             event == es.events[index]
         IN  IF Unexpired(event, es.eventTTL, now)
             THEN es
             ELSE removeExpiredEventsKeeping(
                      [es EXCEPT !.head = (es.head + 1) % es.maxEvents,
                                 !.count = es.count - 1], now)
    ELSE es

\* removeExpiredEvents: the loop over the oldest events
RECURSIVE removeExpiredEvents(_, _)
removeExpiredEvents(es, now) ==
    IF es.count > 0
    THEN LET index == es.head % es.maxEvents
             event == es.events[index]
         IN  IF Unexpired(event, es.eventTTL, now)
             THEN es
             ELSE removeExpiredEvents(
                      [es EXCEPT !.events[index] = NilEvent,
                                 !.head = (es.head + 1) % es.maxEvents,
                                 !.count = es.count - 1], now)
    ELSE es

\* ListEvents: copies of the count events from head on
ListEvents(es) ==
    [i \in 1..es.count |-> es.events[(es.head + (i - 1)) % es.maxEvents]]

\* time passes
StoreTick ==
    /\ store.now < MaxTime
    /\ store' = [store EXCEPT !.now = store.now + 1]
    /\ UNCHANGED <<plugins, toClaim, toRelease, startOnce, started, shutdown, ctxDone,
                   loopPc, inproc, calls, resultChan, ret, outstanding, issued, startPc,
                   waitPc, pool, passed, built>>

\* Store.Eventf
StoreEventf ==
    /\ store.recorded < MaxRecords
    /\ LET event == Event(store.recorded + 1, store.now)
       IN  store' = [recordEvent(store, event) EXCEPT
                        !.recorded = store.recorded + 1,
                        !.last = StoreCall("Eventf", ListEvents(store), store.now, <<>>)]
    /\ UNCHANGED <<plugins, toClaim, toRelease, startOnce, started, shutdown, ctxDone,
                   loopPc, inproc, calls, resultChan, ret, outstanding, issued, startPc,
                   waitPc, pool, passed, built>>

\* Store.removeExpiredEvents, as Store.Start calls it every resync interval
StoreRemoveExpired ==
    /\ store' = [removeExpiredEvents(store, store.now) EXCEPT
                    !.last = StoreCall("removeExpiredEvents", ListEvents(store),
                                       store.now, <<>>)]
    /\ UNCHANGED <<plugins, toClaim, toRelease, startOnce, started, shutdown, ctxDone,
                   loopPc, inproc, calls, resultChan, ret, outstanding, issued, startPc,
                   waitPc, pool, passed, built>>

\* Store.ListEvents
StoreListEvents ==
    /\ store' = [store EXCEPT
                    !.last = StoreCall("ListEvents", ListEvents(store), store.now,
                                       ListEvents(store))]
    /\ UNCHANGED <<plugins, toClaim, toRelease, startOnce, started, shutdown, ctxDone,
                   loopPc, inproc, calls, resultChan, ret, outstanding, issued, startPc,
                   waitPc, pool, passed, built>>

\* a store of any capacity and TTL, and no Claimer
StoreInit ==
    /\ plugins = EmptyMap
    /\ InitCommon
    /\ pool = NoPool
    /\ built = NoBuild
    /\ \E maxEvents \in 1..MaxCapacity : \E eventTTL \in EventTTLs :
           store = NewEventStore(maxEvents, eventTTL)

StoreNext ==
    \/ StoreTick
    \/ StoreEventf
    \/ StoreRemoveExpired
    \/ StoreListEvents

\* an event store driven by any sequence of Eventf, removeExpiredEvents and
\* ListEvents calls while time passes
StoreSpec == StoreInit /\ [][StoreNext]_vars

\* ============================================================ construction
\* NewGPUClaimPlugin(log, name, reader, preClaimed): a device-pool plugin
\* that has not been initialised
NewGPUClaimPlugin(name, reader, preClaimed) ==
    [name |-> name, reader |-> reader, preClaimed |-> preClaimed]

\* a reader that discovers one device
WorkingReader(address) == [nil |-> FALSE, err |-> FALSE, devices |-> <<address>>]

\* the plugin lists NewResourceClaimer is called with: none, one or two
\* plugins, two plugins of the same name, and plugins whose Init fails
\* because the reader is nil or its Read fails
PluginLists ==
    {<<>>,
     <<NewGPUClaimPlugin("gpu", WorkingReader(1), <<>>)>>,
     <<NewGPUClaimPlugin("gpu", WorkingReader(1), <<1>>),
       NewGPUClaimPlugin("nic", WorkingReader(3), <<>>)>>,
     <<NewGPUClaimPlugin("gpu", WorkingReader(1), <<>>),
       NewGPUClaimPlugin("gpu", WorkingReader(3), <<>>)>>,
     <<NewGPUClaimPlugin("gpu", [nil |-> FALSE, err |-> TRUE, devices |-> <<>>], <<>>),
       NewGPUClaimPlugin("gpu", WorkingReader(3), <<>>)>>,
     <<NewGPUClaimPlugin("gpu", WorkingReader(1), <<>>),
       NewGPUClaimPlugin("nic", [nil |-> TRUE, err |-> FALSE, devices |-> <<>>], <<>>)>>,
     <<NewGPUClaimPlugin("gpu", [nil |-> FALSE, err |-> TRUE, devices |-> <<>>], <<>>)>>}

\* NewResourceClaimer has not been called with the plugin list yet
NotBuilt(list) ==
    [plugins |-> list, returned |-> FALSE, claimer |-> FALSE, err |-> NoErr,
     inits |-> [i \in 1..Len(list) |-> 0]]

\* the first loop of NewResourceClaimer with a later plugin of a name
\* replacing the earlier one
RECURSIVE RegisterLoopReplacing(_, _, _)
RegisterLoopReplacing(list, i, registered) ==
    IF i > Len(list) THEN [err |-> NoErr, registered |-> registered]
    ELSE RegisterLoopReplacing(list, i + 1,
             [n \in DOMAIN registered \cup {list[i].name} |->
                 IF n = list[i].name THEN i ELSE registered[n]])

\* the first loop of NewResourceClaimer: c.plugins[plugin.Name()] = plugin
\* unless the name is taken; `registered` maps a name to its place in the list
RECURSIVE RegisterLoop(_, _, _)
RegisterLoop(list, i, registered) ==
    IF i > Len(list) THEN [err |-> NoErr, registered |-> registered]
    ELSE IF list[i].name \in DOMAIN registered
         THEN [err |-> Err("plugin already exists"), registered |-> registered]
         ELSE RegisterLoop(list, i + 1,
                  [n \in DOMAIN registered \cup {list[i].name} |->
                      IF n = list[i].name THEN i ELSE registered[n]])

\* the second loop of NewResourceClaimer: Init of every registered plugin in
\* the order the map is ranged over, until one fails
RECURSIVE InitLoop(_, _, _, _, _, _)
InitLoop(list, registered, order, k, inits, initialised) ==
    IF k > Len(order) THEN [err |-> NoErr, inits |-> inits, initialised |-> initialised]
    ELSE LET i == registered[order[k]]
             r == GpuPluginInit(list[i].reader, list[i].preClaimed)
             counted == [inits EXCEPT ![i] = inits[i] + 1]
         IN  IF r.err # NoErr
             THEN [err |-> r.err, inits |-> counted, initialised |-> initialised]
             ELSE InitLoop(list, registered, order, k + 1, counted,
                      [n \in DOMAIN initialised \cup {order[k]} |->
                          IF n = order[k]
                          THEN [kind |-> "pool", preClaimed |-> list[i].preClaimed,
                                held |-> 0, claimFails |-> FALSE, releaseFails |-> FALSE,
                                devices |-> r.devices]
                          ELSE initialised[n]])

\* NewResourceClaimer(log, plugins...): nil and an error, or a Claimer
NewResourceClaimer(list, order) ==
    LET reg == RegisterLoop(list, 1, EmptyMap)
        ini == InitLoop(list, reg.registered, order, 1, [i \in 1..Len(list) |-> 0], EmptyMap)
    IN  IF reg.err # NoErr
        THEN [claimer |-> FALSE, err |-> reg.err, plugins |-> EmptyMap,
              inits |-> [i \in 1..Len(list) |-> 0]]
        ELSE IF ini.err # NoErr
        THEN [claimer |-> FALSE, err |-> ini.err, plugins |-> EmptyMap, inits |-> ini.inits]
        ELSE [claimer |-> TRUE, err |-> NoErr, plugins |-> ini.initialised,
              inits |-> ini.inits]

\* the call of NewResourceClaimer
Build ==
    /\ ~built.returned
    /\ \E order \in Orders(DOMAIN RegisterLoop(built.plugins, 1, EmptyMap).registered) :
          LET r == NewResourceClaimer(built.plugins, order)
          IN  /\ built' = [built EXCEPT !.returned = TRUE, !.claimer = r.claimer,
                                        !.err = r.err, !.inits = r.inits]
              /\ plugins' = r.plugins
              /\ issued' = [n \in DOMAIN r.plugins |-> {}]
    /\ UNCHANGED <<toClaim, toRelease, startOnce, started, shutdown, ctxDone,
                   loopPc, inproc, calls, resultChan, ret, outstanding, startPc,
                   waitPc, pool, passed, store>>

\* NewResourceClaimer is still to be called, with any of the plugin lists
InitBuild ==
    /\ plugins = EmptyMap
    /\ InitCommon
    /\ pool = NoPool
    /\ store = NoStore
    /\ \E list \in PluginLists : built = NotBuilt(list)

\* the methods of a Claimer can be called once NewResourceClaimer returned it
NextBuild ==
    \/ Build
    \/ built.claimer /\ StartCall
    \/ built.claimer /\ CancelStart
    \/ built.claimer /\ LoopBegin
    \/ built.claimer /\ LoopShutdown
    \/ built.claimer /\ LoopRecvClaim
    \/ built.claimer /\ ClaimStep
    \/ built.claimer /\ ReleaseStep
    \/ built.claimer /\ LoopRecvRelease
    \/ built.claimer /\ LoopAnswer
    \/ built.claimer /\ DrainClaim
    \/ built.claimer /\ \E i \in CallIds : \E resources \in ResourceLists : BeginClaim(i, resources)
    \/ built.claimer /\ \E i \in CallIds : \E claims \in ReleaseArgs : BeginRelease(i, claims)
    \/ built.claimer /\ \E i \in CallIds : SendReq(i)
    \/ built.claimer /\ \E i \in CallIds : SendShutdown(i)
    \/ built.claimer /\ \E i \in CallIds : SendCanceled(i)
    \/ built.claimer /\ \E i \in CallIds : WaitCanceled(i)
    \/ built.claimer /\ \E i \in CallIds : WaitResult(i)

\* NewResourceClaimer followed by any use of the Claimer it returned
BuildSpec == InitBuild /\ [][NextBuild]_vars

\* ================================================================ holding
\* the claims callers hold when the run begins: one device of "gpu" each
HeldClaims == {[n \in {"gpu"} |-> GpuClaim(<<1>>)], [n \in {"gpu"} |-> GpuClaim(<<2>>)]}

\* the claims callers hold and have not passed to Release
Fresh == outstanding \ passed

\* a running Claimer with the plugins of Init, some of whose "gpu" devices
\* are held by callers that claimed them earlier
InitHold ==
    /\ \E held \in SUBSET HeldClaims :
          /\ plugins = [n \in {"gpu", "nic"} |->
                IF n = "gpu"
                THEN [PoolPlugin(<<1, 2, 5>>, <<5, 9>>) EXCEPT !.devices =
                        [a \in {1, 2, 5} |->
                            IF a = 5 \/ \E m \in held : a \in SeqSet(m["gpu"].devices)
                            THEN ClaimStatusClaimed ELSE ClaimStatusFree]]
                ELSE PoolPlugin(<<3>>, <<>>)]
          /\ outstanding = held
          /\ issued = [n \in {"gpu", "nic"} |->
                IF n = "gpu" THEN UNION {SeqSet(m["gpu"].devices) : m \in held} ELSE {}]
    /\ toClaim = <<>>
    /\ toRelease = <<>>
    /\ startOnce = TRUE
    /\ started = TRUE
    /\ shutdown = FALSE
    /\ ctxDone = FALSE
    /\ loopPc = "select"
    /\ inproc = {}
    /\ calls = [i \in CallIds |-> NewCall]
    /\ resultChan = [i \in CallIds |-> <<>>]
    /\ ret = NoRet
    /\ startPc = "blocked"
    /\ waitPc = "none"
    /\ passed = {}
    /\ pool = NoPool
    /\ built = NoBuild
    /\ store = NoStore

\* the steps of a running Claimer whose callers pass to Release only claims
\* they hold and have not passed to Release before
NextHold ==
    \/ CancelStart
    \/ LoopShutdown
    \/ LoopRecvClaim
    \/ ClaimStep
    \/ ReleaseStep
    \/ LoopRecvRelease
    \/ LoopAnswer
    \/ DrainClaim
    \/ \E i \in CallIds : \E resources \in ResourceLists : BeginClaim(i, resources)
    \/ \E i \in CallIds : SendReq(i)
    \/ \E i \in CallIds : SendShutdown(i)
    \/ \E i \in CallIds : SendCanceled(i)
    \/ \E i \in CallIds : WaitCanceled(i)
    \/ \E i \in CallIds : WaitResult(i)
    \/ \E i \in CallIds : \E claims \in Fresh : BeginRelease(i, claims)

\* a running Claimer used by callers that release each claim at most once
HoldSpec == InitHold /\ [][NextHold]_vars

\* ================================================================ claims
\* names of a claim request for which the pool had, when the request was
\* received, fewer Free devices than the requested quantity
ShortNames(w) ==
    {n \in DOMAIN w.resources : n \in DOMAIN w.pre /\ FreeCount(w.pre[n]) < w.resources[n]}

\* call i leaves its second select by another case than <-ctx.Done()
ReturnsUncancelled(i) == calls[i].pc = "wait" /\ calls'[i].pc = "done" /\ ~WaitCanceled(i)

\* the addresses of every device-pool claim of a Claims map, per pool
AddrsOf(m, n) == IF n \in DOMAIN m THEN SeqSet(m[n].devices) ELSE {}

\* C1: a claim request that names a resource whose pool has fewer Free
\* devices than requested is answered InsufficientResources (naming every
\* short resource) with no Claims value, without any plugin call that
\* changes a device map: every pool is as it was when the request was received,
\* also the pools that had enough; a caller whose context is not cancelled
\* returns exactly that answer.
C1_InsufficientChangesNothing ==
    [][/\ \A w \in inproc' :
             (w.kind = "claim" /\ ShortNames(w) # {}) =>
                 /\ w.phase = "answer"
                 /\ w.res = Result(NilClaims, ErrOn("InsufficientResources", ShortNames(w)))
                 /\ Pools' = w.pre
       /\ \A w \in inproc \ inproc' :
             (w.kind = "claim" /\ ShortNames(w) # {}) =>
                 /\ resultChan'[w.id] = <<w.res>>
                 /\ Pools' = w.pre
       /\ \A i \in CallIds :
             (/\ ReturnsUncancelled(i)
              /\ resultChan[i] # <<>>
              /\ Head(resultChan[i]).err.e = "InsufficientResources") =>
                 /\ ret'.id = i
                 /\ ret'.claims = NilClaims
                 /\ ret'.err = Head(resultChan[i]).err
                 /\ outstanding' = outstanding
      ]_vars

\* C1 witness: a request for two resources was refused because only "nic"
\* was short, and the caller has returned that error
C1_Witness ==
    /\ ret.kind = "claim"
    /\ ret.via = "result"
    /\ ret.err = ErrOn("InsufficientResources", {"nic"})
    /\ ret.claims = NilClaims

\* C2: a claim request whose named pools all have at least the requested
\* number of Free devices when it is received never fails: it is answered
\* with a Claims map whose keys are exactly the requested names, every named
\* pool then has exactly `quantity` fewer Free devices and every other pool
\* is unchanged; a caller whose context is not cancelled returns that map.
C2_SufficientClaimSucceeds ==
    [][/\ \A w \in inproc' :
             (w.kind = "claim" /\ ShortNames(w) = {}) =>
                 /\ w.trigger = NoErr
                 /\ w.phase \in {"claim", "answer"}
                 /\ w.phase = "answer" =>
                       /\ w.res = Result(SomeClaims(w.claims), NoErr)
                       /\ DOMAIN w.claims = DOMAIN w.resources
                       /\ \A n \in PoolNames :
                             IF n \in DOMAIN w.resources
                             THEN FreeCount(Pools'[n]) = FreeCount(w.pre[n]) - w.resources[n]
                             ELSE Pools'[n] = w.pre[n]
       /\ \A w \in inproc \ inproc' :
             (w.kind = "claim" /\ w.phase = "answer") => resultChan'[w.id] = <<w.res>>
       /\ \A i \in CallIds :
             (ReturnsUncancelled(i) /\ calls[i].kind = "claim") =>
                 /\ resultChan[i] # <<>>
                 /\ ret' = Ret(i, "claim", Head(resultChan[i]).claims, Head(resultChan[i]).err,
                               "result", "none")
                 /\ ret'.claims # NilClaims => ret'.claims[1] \in outstanding'
      ]_vars

\* C2 witness: a caller has received a Claims map for "gpu" and "nic"
C2_Witness ==
    /\ ret.kind = "claim"
    /\ ret.via = "result"
    /\ ret.err = NoErr
    /\ ret.claims # NilClaims
    /\ DOMAIN ret.claims[1] = {"gpu", "nic"}
    /\ ret.claims[1] \in outstanding

\* the Claims map a claim result carries, or the empty map
ClaimsIn(res) == IF res.claims = NilClaims THEN EmptyMap ELSE res.claims[1]

\* addresses of pool n in claims that are on their way between the loop and
\* a caller: those of the request being processed, those in a result its
\* caller still waits for, and those of a Release call that has not returned
Pending(n) ==
    UNION ({AddrsOf(w.claims, n) : w \in inproc}
           \cup {AddrsOf(ClaimsIn(Head(resultChan[i])), n) :
                    i \in {j \in CallIds : calls[j].pc = "wait" /\ resultChan[j] # <<>>}}
           \cup {AddrsOf(calls[i].claims, n) :
                    i \in {j \in CallIds : calls[j].pc \in {"send", "wait"} /\ calls[j].kind = "release"}})

\* addresses of pool n in the claims callers hold
Held(n) == UNION {AddrsOf(m, n) : m \in outstanding}

\* C3: every Claimed device of a pool is contained in an outstanding claim
\* (one Claim returned and that was not passed to Release since); devices
\* of the pre-claimed list and devices of claims still on their way to or
\* from a caller are counted as held.
C3_ClaimedOnlyIfHeld ==
    \A n \in PoolNames :
        \A a \in DOMAIN plugins[n].devices :
            plugins[n].devices[a] = ClaimStatusClaimed =>
                a \in SeqSet(plugins[n].preClaimed) \cup Held(n) \cup Pending(n)

\* C4: every address of a claim a device-pool plugin returns was Free
\* immediately before the Claim call and is Claimed after it, and it is in
\* no claim the plugin returned since the plugin's last Release: the claims
\* of successive Claim calls are pairwise disjoint.
C4_NeverHandsOutClaimed ==
    [][\A w \in inproc : \A v \in inproc' :
          (w.id = v.id /\ w.kind = "claim" /\ v.kind = "claim") =>
              \A n \in (DOMAIN v.claims \ DOMAIN w.claims) \cap PoolNames :
                  /\ Len(v.claims[n].devices) = Cardinality(SeqSet(v.claims[n].devices))
                  /\ \A a \in SeqSet(v.claims[n].devices) :
                        /\ a \in DOMAIN plugins[n].devices
                        /\ plugins[n].devices[a] = ClaimStatusFree
                        /\ plugins'[n].devices[a] = ClaimStatusClaimed
                        /\ a \notin issued[n]
      ]_vars

\* C4 witness: the "gpu" pool has handed out both its devices in two Claim
\* calls with no Release in between, the second one for the request being
\* processed
C4_Witness ==
    /\ issued["gpu"] = {1, 2}
    /\ \E w \in inproc :
          /\ w.kind = "claim"
          /\ "gpu" \in DOMAIN w.claims
          /\ Len(w.claims["gpu"].devices) = 1
    /\ \E m \in outstanding : "gpu" \in DOMAIN m /\ Len(m["gpu"].devices) = 1

\* C5: at most one request is inside a case body of the loop, and while
\* one is, the loop has neither taken another request nor left its select
\* loop.
C5_OneRequestAtATime ==
    /\ Cardinality(inproc) <= 1
    /\ inproc # {} => loopPc = "select"

\* C5 witness: a claim request is between two plugin.Claim calls while a
\* Release request of another caller waits in its queue
C5_Witness ==
    /\ toRelease # <<>>
    /\ \E w \in inproc :
          /\ w.phase = "claim"
          /\ DOMAIN w.claims # {}
          /\ w.todo # {}
          /\ Head(toRelease).id # w.id

\* a map names a resource that has no plugin
NamesUnregistered(m) == \E n \in DOMAIN m : n \notin Registered

\* call i is made in this step
Begins(i) == calls[i].pc = "new" /\ calls'[i].pc # "new"

\* C6: a Claim for a ResourceList naming an unregistered resource, and a
\* Release for a Claims map with an unregistered key, return MissingPlugins
\* whether the Claimer is not started, running or shut down, returning no
\* Claims value, with both queues, the request being processed and every
\* plugin unchanged; whatever is placed in a queue names registered
\* resources only.
C6_MissingPluginsAlways ==
    [][/\ \A i \in {j \in CallIds : Begins(j)} : \A rl \in ResourceLists :
             (NamesUnregistered(rl) /\ BeginClaim(i, rl)) =>
                 /\ ret'.id = i
                 /\ ret'.kind = "claim"
                 /\ ret'.err.e = "MissingPlugins"
                 /\ ret'.err.on = DOMAIN rl \ Registered
                 /\ ret'.claims = NilClaims
                 /\ calls'[i].pc = "done"
                 /\ UNCHANGED <<plugins, toClaim, toRelease, inproc, resultChan, outstanding>>
       /\ \A i \in {j \in CallIds : Begins(j)} : \A cl \in ReleaseArgs :
             (NamesUnregistered(cl) /\ BeginRelease(i, cl)) =>
                 /\ ret'.id = i
                 /\ ret'.kind = "release"
                 /\ ret'.err.e = "MissingPlugins"
                 /\ ret'.err.on = DOMAIN cl \ Registered
                 /\ calls'[i].pc = "done"
                 /\ UNCHANGED <<plugins, toClaim, toRelease, inproc, resultChan, outstanding>>
       /\ \A k \in 1..Len(toClaim') : ~NamesUnregistered(toClaim'[k].resources)
       /\ \A k \in 1..Len(toRelease') : ~NamesUnregistered(toRelease'[k].claims)
      ]_vars

\* C6 witness: after shutdown a Release of a held claim extended by an
\* unregistered key has returned MissingPlugins
C6_Witness ==
    /\ ret.kind = "release"
    /\ ret.via = "check"
    /\ ret.life = "shutdown"
    /\ ret.err.e = "MissingPlugins"
    /\ outstanding # {}

\* the claim request of call i is still queued or being processed
InLoop(i) ==
    \/ \E k \in 1..Len(toClaim) : toClaim[k].id = i
    \/ \E w \in inproc : w.id = i

\* C7: after a Claim call has returned a non-nil error, no Claims value was
\* returned, and once its request is neither queued nor being processed no
\* device is Claimed on account of it: no claim obtained for the request
\* still has a Claimed device.
C7_ErrorMeansNothingHeld ==
    (ret.kind = "claim" /\ ret.err # NoErr) =>
        /\ ret.claims = NilClaims
        /\ (~InLoop(ret.id) /\ resultChan[ret.id] # <<>>) =>
              \A n \in PoolNames :
                  \A a \in AddrsOf(ClaimsIn(Head(resultChan[ret.id])), n) :
                      plugins[n].devices[a] = ClaimStatusFree

\* the plugin named n is in the state it had when request w was received
Restored(w, n) ==
    IF n \in PoolNames THEN plugins[n].devices = w.pre[n] ELSE plugins[n].held = w.preUnits[n]

\* a plugin's Claim failed after k >= 1 plugins of request w had succeeded
PartlyClaimed(w) == w.kind = "claim" /\ w.trigger # NoErr /\ DOMAIN w.claims # {}

\* C8 as stated: when a plugin's Claim has failed after k >= 1 plugins of
\* the request had succeeded, Release is called for exactly the k claims
\* obtained before the request is answered, the answer is the triggering
\* error with no Claims value also when a rollback Release failed, and
\* every one of the k plugins is back in its state from before the request.
C8_RollbackRestoresAll ==
    \A w \in inproc :
        PartlyClaimed(w) =>
            /\ w.phase \in {"rollback", "answer"}
            /\ w.phase = "answer" =>
                  /\ w.released = DOMAIN w.claims
                  /\ w.res = Result(NilClaims, w.trigger)
                  /\ \A n \in DOMAIN w.claims : Restored(w, n)

\* C8 amended: as above, but only the plugins whose rollback Release
\* succeeded are back in their state from before the request; a device
\* pool is always among them, its Release of a claim of its own never
\* fails.
C8_RollbackOnPartialFailure ==
    \A w \in inproc :
        PartlyClaimed(w) =>
            /\ w.phase \in {"rollback", "answer"}
            /\ w.released \subseteq DOMAIN w.claims
            /\ w.failed \subseteq w.released \ PoolNames
            /\ w.phase = "answer" =>
                  /\ w.released = DOMAIN w.claims
                  /\ w.res = Result(NilClaims, w.trigger)
                  /\ \A n \in DOMAIN w.claims \ w.failed : Restored(w, n)

\* C8 witness: a request that obtained claims from the "gpu" pool and from
\* another plugin before a third plugin failed is about to be answered, and
\* one of the two rollback Releases failed
C8_Witness ==
    \E w \in inproc :
        /\ w.kind = "claim"
        /\ w.phase = "answer"
        /\ w.trigger # NoErr
        /\ "gpu" \in DOMAIN w.claims
        /\ Cardinality(DOMAIN w.claims) = 2
        /\ w.failed # {}

\* the request of call i waits in a command queue
Queued(i) ==
    \/ \E k \in 1..Len(toClaim) : toClaim[k].id = i
    \/ \E k \in 1..Len(toRelease) : toRelease[k].id = i

\* the loop has answered call i with the error of the Start context
AnsweredStartCtx(i) == resultChan[i] # <<>> /\ Head(resultChan[i]).err = StartCtxErr

\* C9: once the loop has observed the cancellation of the Start context,
\* every request waiting in the claim queue or in the release queue is
\* eventually answered with that context's error.
C9_QueuedRequestsAnswered ==
    \A i \in CallIds : (shutdown /\ Queued(i)) ~> AnsweredStartCtx(i)

\* C10: after shutdown no request is placed in either command queue.
C10_NothingQueuedAfterShutdown ==
    [][shutdown => (Len(toClaim') <= Len(toClaim) /\ Len(toRelease') <= Len(toRelease))]_vars

\* the last two direct calls of the pool were a successful Claim and the
\* Release of the claim it returned
RoundTripped ==
    /\ pool.prev.op = "Claim"
    /\ pool.prev.err = NoErr
    /\ pool.last.op = "Release"
    /\ pool.last.claim = pool.prev.claim

\* C14: a successful Claim(n) followed at once by the Release of the claim
\* it returned leaves the device map exactly as it was before the Claim, the
\* Release returns no error, and a Claim(n) made next succeeds again with as
\* many devices.
C14_ClaimReleaseRoundTrip ==
    [][/\ RoundTripped' =>
             /\ pool'.last.err = NoErr
             /\ pool'.devices = pool'.prev.before
       /\ (/\ RoundTripped
           /\ pool' # pool
           /\ pool'.last.op = "Claim"
           /\ pool'.last.quantity = pool.prev.quantity) =>
             /\ pool'.last.err = NoErr
             /\ Len(pool'.last.claim.devices) = Len(pool.prev.claim.devices)
      ]_vars

\* C14 witness: a claim of two devices was released right after it was
\* obtained
C14_Witness ==
    /\ RoundTripped
    /\ pool.prev.quantity = 2
    /\ Len(pool.prev.claim.devices) = 2
    /\ pool.prev.after # pool.prev.before

\* the last two direct calls of the pool were Releases of the same claim of
\* the pool's variant
ReleasedTwice ==
    /\ pool.prev.op = "Release"
    /\ pool.last.op = "Release"
    /\ pool.last.claim = pool.prev.claim
    /\ pool.last.claim.variant = "gpu"

\* C15: every Release of a claim of the pool's variant returns no error,
\* whether its devices are Claimed, already Free or not tracked; released a
\* second time at once, the claim is released without error again and the
\* device map is as the first Release left it.
C15_ReleaseIdempotent ==
    /\ (pool.last.op = "Release" /\ pool.last.claim.variant = "gpu") => pool.last.err = NoErr
    /\ ReleasedTwice =>
          /\ pool.prev.err = NoErr
          /\ pool.last.err = NoErr
          /\ pool.last.after = pool.prev.after
          /\ pool.devices = pool.prev.after

\* C15 witness: a claim of two tracked devices, one Claimed and one already
\* Free, was released twice in a row
C15_Witness ==
    /\ ReleasedTwice
    /\ Len(pool.last.claim.devices) = 2
    /\ \E a, b \in SeqSet(pool.last.claim.devices) :
          /\ a \in DOMAIN pool.prev.before
          /\ b \in DOMAIN pool.prev.before
          /\ pool.prev.before[a] = ClaimStatusClaimed
          /\ pool.prev.before[b] = ClaimStatusFree

\* C18: a Release of a device pool called with nil or with a claim of
\* another variant returns InvalidResourceClaim and leaves the status of
\* every device as it was.
C18_InvalidClaimRejected ==
    (pool.last.op = "Release" /\ pool.last.claim.variant # "gpu") =>
        /\ pool.last.err = ErrInvalidResourceClaim
        /\ pool.last.after = pool.last.before
        /\ pool.devices = pool.last.before

\* C18 witness: nil was passed to Release right after a claim of another
\* variant, while a device was Claimed
C18_Witness ==
    /\ pool.last.op = "Release"
    /\ pool.last.claim = NilClaim
    /\ pool.prev.op = "Release"
    /\ pool.prev.claim = ExtClaim
    /\ \E a \in DOMAIN pool.devices : pool.devices[a] = ClaimStatusClaimed

\* C19: a Claim(q) with q >= 0 succeeds exactly when at least q devices are
\* Free; it then returns q pairwise-distinct addresses, each Free before the
\* call and Claimed after it, and every other device keeps its status;
\* Claim(0) returns a claim of zero devices and changes nothing; a Claim
\* that fails returns InsufficientResources, no claim, and changes nothing.
C19_ClaimFrame ==
    (pool.last.op = "Claim" /\ pool.last.quantity >= 0) =>
        LET c == pool.last
            got == SeqSet(c.claim.devices)
        IN  /\ pool.devices = c.after
            /\ DOMAIN c.after = DOMAIN c.before
            /\ IF FreeCount(c.before) >= c.quantity
               THEN /\ c.err = NoErr
                    /\ c.claim.variant = "gpu"
                    /\ Len(c.claim.devices) = c.quantity
                    /\ Cardinality(got) = c.quantity
                    /\ got \subseteq DOMAIN c.before
                    /\ \A a \in got :
                          c.before[a] = ClaimStatusFree /\ c.after[a] = ClaimStatusClaimed
                    /\ \A a \in DOMAIN c.before \ got : c.after[a] = c.before[a]
                    /\ c.quantity = 0 => c.after = c.before
               ELSE /\ c.err = ErrInsufficientResources
                    /\ c.claim = NilClaim
                    /\ c.after = c.before

\* C19 witness: one device was claimed from a pool in which another device
\* was Claimed and stayed so, after a Claim(0)
C19_Witness ==
    /\ pool.last.op = "Claim"
    /\ pool.last.quantity = 1
    /\ pool.last.err = NoErr
    /\ \E a \in DOMAIN pool.last.before : pool.last.before[a] = ClaimStatusClaimed
    /\ pool.prev.op = "Claim"
    /\ pool.prev.quantity = 0
    /\ pool.prev.err = NoErr

\* the number of Claimed devices of a device map
ClaimedCount(devs) == Cardinality({a \in DOMAIN devs : devs[a] = ClaimStatusClaimed})

\* C20: no CanClaim, Claim or Release changes the key set of the device map
\* Init built, also a Release of addresses the plugin does not track; the
\* Claimed devices never outnumber the devices, and Free and Claimed
\* devices together are all of them.
C20_KeySetFixed ==
    [][/\ DOMAIN pool'.devices = DOMAIN pool.devices
       /\ ClaimedCount(pool'.devices) <= Cardinality(DOMAIN pool.devices)
       /\ FreeCount(pool'.devices) + ClaimedCount(pool'.devices)
             = Cardinality(DOMAIN pool.devices)
      ]_vars

\* C20 witness: a claim naming a tracked and an untracked address was
\* released
C20_Witness ==
    /\ pool.last.op = "Release"
    /\ pool.last.err = NoErr
    /\ \E a, b \in SeqSet(pool.last.claim.devices) :
          a \in DOMAIN pool.devices /\ b \notin DOMAIN pool.devices

\* what plugin n shows once its Release for the entry of n in `claims`
\* has returned nil: the tracked devices of the claim are Free, or one unit
\* fewer is handed out
EntryReleased(w, n) ==
    IF n \in PoolNames
    THEN \A a \in SeqSet(w.claims[n].devices) \cap DOMAIN Pools[n] :
            Pools[n][a] = ClaimStatusFree
    ELSE Units[n] = IF w.preUnits[n] > 0 THEN w.preUnits[n] - 1 ELSE 0

\* what plugin n shows once its Release has returned an error
EntryKept(w, n) == IF n \in PoolNames THEN Pools[n] = w.pre[n] ELSE Units[n] = w.preUnits[n]

\* C16: when the loop has processed a Release request, plugin.Release has
\* been called for every entry of the Claims map, also for the entries
\* after one that failed; the answer is nil if no entry failed and else one
\* error that matches ReleaseClaim and carries the error of every failed
\* entry.
C16_ReleaseVisitsEveryEntry ==
    \A w \in inproc :
        (w.kind = "release" /\ w.phase = "answer") =>
            /\ w.released = DOMAIN w.claims
            /\ w.failed \subseteq DOMAIN w.claims
            /\ \A n \in DOMAIN w.claims \ w.failed : EntryReleased(w, n)
            /\ \A n \in w.failed : EntryKept(w, n)
            /\ w.res = Result(NilClaims,
                              IF w.failed = {} THEN NoErr ELSE ErrReleaseClaim(w.failed))

\* C16 witness: a Release of a map with two entries is about to be
\* answered with the error of the one entry that failed, and the other
\* entry has been released
C16_Witness ==
    \E w \in inproc :
        /\ w.kind = "release"
        /\ w.phase = "answer"
        /\ DOMAIN w.claims = {"gpu", "ext"}
        /\ w.failed = {"ext"}
        /\ w.res.err = ErrReleaseClaim({"ext"})
        /\ Pools["gpu"] # w.pre["gpu"]
        /\ EntryReleased(w, "gpu")

\* C17: a ReleaseClaim error is recoverable by retrying: when a Release
\* request on a running Claimer is answered with a ReleaseClaim error, a
\* Release with the same Claims map is able to return nil, that is,
\* plugin.Release has for every failed entry an outcome without error.
C17_RetryCanSucceed ==
    \A w \in inproc :
        (w.kind = "release" /\ w.phase = "answer" /\ w.res.err # NoErr /\ ~shutdown) =>
            \A n \in w.failed :
                \E r \in PluginReleaseOutcomes(plugins[n], w.claims[n]) : r.err = NoErr

\* call i of the given kind is refused by the running check of a Claimer
\* that has not been started: NotStarted, nothing enqueued, no plugin changed
RefusedNotStarted(i, kind) ==
    /\ ret' = Ret(i, kind, NilClaims, ErrNotStarted, "running", "created")
    /\ calls'[i].pc = "done"
    /\ UNCHANGED <<plugins, toClaim, toRelease, inproc, resultChan, outstanding>>

\* every entry of a Claims map is a claim of the device-pool variant
WellTyped(claims) == \A n \in DOMAIN claims : claims[n].variant = "gpu"

\* once WaitUntilStarted has returned nil and until shutdown, a call naming
\* registered resources passes the running check, a claim request whose
\* pools have enough Free devices is answered with its Claims map and a
\* release request with nil, and a caller whose context is not cancelled
\* returns that answer
SucceedsAfterWait ==
    (waitPc = "nil" /\ ~shutdown) =>
        /\ started
        /\ \A i \in {j \in CallIds : Begins(j)} :
              /\ \A rl \in ResourceLists :
                    (~NamesUnregistered(rl) /\ BeginClaim(i, rl)) =>
                        calls'[i] = [pc |-> "send", kind |-> "claim", resources |-> rl,
                                     claims |-> EmptyMap]
              /\ \A cl \in ReleaseArgs :
                    (~NamesUnregistered(cl) /\ BeginRelease(i, cl)) =>
                        calls'[i] = [pc |-> "send", kind |-> "release", resources |-> EmptyMap,
                                     claims |-> cl]
        /\ \A w \in inproc' :
              /\ (w.kind = "claim" /\ w.phase = "answer" /\ ShortNames(w) = {}) =>
                    w.res = Result(SomeClaims(w.claims), NoErr)
              /\ (w.kind = "release" /\ w.phase = "answer" /\ WellTyped(w.claims)) =>
                    w.res = NoRes
        /\ \A i \in CallIds :
              ReturnsUncancelled(i) =>
                 /\ resultChan[i] # <<>>
                 /\ ret' = Ret(i, calls[i].kind, Head(resultChan[i]).claims,
                               Head(resultChan[i]).err, "result", "none")

\* C11 as stated: while the Claimer has not been started every Claim and
\* Release call, whatever its arguments, returns NotStarted with nothing
\* enqueued and no plugin changed; after WaitUntilStarted has returned nil
\* and before shutdown, the call for registered resources with sufficient
\* supply succeeds.
C11_NotStartedWhateverArguments ==
    [][/\ ~started =>
             \A i \in {j \in CallIds : Begins(j)} :
                 RefusedNotStarted(i, "claim") \/ RefusedNotStarted(i, "release")
       /\ SucceedsAfterWait
      ]_vars

\* C11 amended: while the Claimer has not been started every Claim and
\* Release call whose argument names registered resources only returns
\* NotStarted with nothing enqueued and no plugin changed (a call naming an
\* unregistered resource returns MissingPlugins instead); after
\* WaitUntilStarted has returned nil and before shutdown, the call for
\* registered resources with sufficient supply succeeds.
C11_NotStartedForRegistered ==
    [][/\ ~started =>
             \A i \in {j \in CallIds : Begins(j)} :
                 /\ \A rl \in ResourceLists :
                       BeginClaim(i, rl) =>
                          IF NamesUnregistered(rl)
                          THEN ret'.err = ErrMissingPlugins(DOMAIN rl \ Registered)
                          ELSE RefusedNotStarted(i, "claim")
                 /\ \A cl \in ReleaseArgs :
                       BeginRelease(i, cl) =>
                          IF NamesUnregistered(cl)
                          THEN ret'.err = ErrMissingPlugins(DOMAIN cl \ Registered)
                          ELSE RefusedNotStarted(i, "release")
       /\ SucceedsAfterWait
      ]_vars

\* C11 witness: after WaitUntilStarted returned nil, the second call, a
\* Claim for a registered resource, has returned its Claims map
C11_Witness ==
    /\ waitPc = "nil"
    /\ ~shutdown
    /\ ret.id = 2
    /\ ret.kind = "claim"
    /\ ret.via = "result"
    /\ ret.err = NoErr
    /\ ret.claims # NilClaims

\* C12: the loop is launched only by a Start call that finds startOnce
\* unused, so by one call only; a Start call made after that, also after
\* shutdown, returns AlreadyStarted and changes nothing; started and
\* shutdown are never undone and shutdown comes after started; the
\* launching call returns nil only when its context is done.
C12_StartOnce ==
    [][/\ loopPc' = "begin" => (loopPc = "begin" \/ (loopPc = "none" /\ ~startOnce))
       /\ startPc' = "blocked" => (startPc = "blocked" \/ (startPc = "none" /\ ~startOnce))
       /\ loopPc # "none" => loopPc' # "none"
       /\ startOnce => startOnce'
       /\ started => started'
       /\ shutdown => shutdown'
       /\ started' => startOnce'
       /\ shutdown' => started'
       /\ startOnce => ~StartCall
       /\ (ret'.kind = "start" /\ ret' # ret) =>
             /\ startOnce
             /\ ret' = Ret(0, "start", NilClaims, ErrAlreadyStarted, "once", Lifecycle)
             /\ UNCHANGED <<plugins, toClaim, toRelease, startOnce, started, shutdown,
                            loopPc, inproc, calls, resultChan, startPc>>
       /\ (startPc' = "nil" /\ startPc # "nil") => (startPc = "blocked" /\ ctxDone)
      ]_vars

\* C12 witness: the launching Start call has returned nil and a Start call
\* made after shutdown has returned AlreadyStarted
C12_Witness ==
    /\ startPc = "nil"
    /\ shutdown
    /\ ret = Ret(0, "start", NilClaims, ErrAlreadyStarted, "once", "shutdown")

\* call i is blocked in a select of Claim or Release: in the first with the
\* queue full and shutdown open, or in the second with no result sent yet
BlockedCall(i) ==
    \/ /\ calls[i].pc = "send"
       /\ ~shutdown
       /\ Len(IF calls[i].kind = "claim" THEN toClaim ELSE toRelease) >= QueueDepth
    \/ /\ calls[i].pc = "wait"
       /\ resultChan[i] = <<>>

\* call i returns its context's error and nothing else
ReturnsCtxErr(i) ==
    /\ ret' = Ret(i, calls[i].kind, NilClaims, CallCtxErr, "ctx", "none")
    /\ calls'[i].pc = "done"

\* C13: a Claim or Release call that is blocked, waiting for space in the
\* queue or for its result while the loop has sent none, can always leave
\* by the cancellation of its context, whatever the loop does or has
\* stopped doing, and when it leaves it returns that context's error.
C13_CancelUnblocks ==
    [][\A i \in CallIds :
          BlockedCall(i) =>
              /\ ENABLED ((SendCanceled(i) \/ WaitCanceled(i)) /\ ReturnsCtxErr(i))
              /\ calls'[i] # calls[i] => ReturnsCtxErr(i)
      ]_vars

\* C13 witness: after shutdown a call has returned its context's error
\* while its request lies in the release queue, which the loop never reads
\* again
C13_Witness ==
    /\ ret.via = "ctx"
    /\ ret.err = CallCtxErr
    /\ shutdown
    /\ loopPc = "drain"
    /\ toRelease # <<>>
    /\ Head(toRelease).id = ret.id

\* C21: Init with a reader returning the addresses D and a pre-claimed
\* list P returns nil and leaves exactly the addresses of D as keys, those
\* in P Claimed and the others Free (addresses of P outside D get no key);
\* Init returns an error when the reader is nil or its Read fails; and a
\* pool without a Free device answers Claim(1) with InsufficientResources.
C21_InitMarksPreClaimed ==
    LET i == pool.init
        D == SeqSet(i.reader.devices)
        P == SeqSet(i.preClaimed)
    IN  /\ (i.reader.nil \/ i.reader.err) <=> i.err # NoErr
        /\ i.err = NoErr =>
              /\ DOMAIN i.devices = D
              /\ \A a \in D \cap P : i.devices[a] = ClaimStatusClaimed
              /\ \A a \in D \ P : i.devices[a] = ClaimStatusFree
        /\ (pool.last.op = "Claim" /\ pool.last.quantity = 1
              /\ FreeCount(pool.last.before) = 0) =>
              /\ pool.last.err = ErrInsufficientResources
              /\ pool.last.claim = NilClaim
              /\ pool.last.after = pool.last.before

\* C21 witness: Init ran with a pre-claimed list naming a discovered and an
\* undiscovered address, the one Free device was claimed, and a further
\* Claim(1) was refused
C21_Witness ==
    /\ pool.init.err = NoErr
    /\ pool.init.preClaimed = <<2, MaxDevices + 1>>
    /\ DOMAIN pool.init.devices = {1, 2}
    /\ pool.last.op = "Claim"
    /\ pool.last.quantity = 1
    /\ pool.last.err = ErrInsufficientResources
    /\ FreeCount(pool.last.before) = 0

\* C23: WaitUntilStarted returns nil only from its select and only when
\* started is closed, which the command loop does when it begins; while
\* started is open the call can leave its select only by the cancellation
\* of its context, and then it returns the context's error; and the call
\* is never stuck once started is closed or its context is cancelled.
C23_WaitUntilStarted ==
    [][/\ waitPc = "nil" => started
       /\ (waitPc' = "nil" /\ waitPc # "nil") => (waitPc = "select" /\ started)
       /\ (started' /\ ~started) => (loopPc = "begin" /\ loopPc' = "select")
       /\ (waitPc = "select" /\ ~started /\ waitPc' # waitPc) => waitPc' = "ctx"
       /\ (waitPc' = "ctx" /\ waitPc # "ctx") => waitPc = "select"
       /\ (waitPc = "select" /\ started) => ENABLED (WaitStarted /\ waitPc' = "nil")
       /\ waitPc = "select" => ENABLED (WaitUntilCanceled /\ waitPc' = "ctx")
       /\ waitPc \in {"nil", "ctx"} => waitPc' = waitPc
      ]_vars

\* C23 witness: a WaitUntilStarted call has returned nil after the loop
\* began, before any Claim or Release call was made
C23_Witness ==
    /\ waitPc = "nil"
    /\ started
    /\ loopPc = "select"
    /\ \A i \in CallIds : calls[i].pc = "new"

\* C24: once the loop has observed the cancellation of the Start context
\* it eventually leaves its deferred drain, so that the goroutine running
\* claimer.start exits.
C24_LoopTerminates == shutdown ~> loopPc = "exited"

\* call i returns in this step
Returns(i) == calls[i].pc \in {"send", "wait"} /\ calls'[i].pc = "done"

\* a request the loop has finished has changed all the plugins it names or
\* none: a claim request has a claim for every name, with each named pool
\* `quantity` devices poorer, or was refused with every pool as before; a
\* release request has had plugin.Release called for every entry
Completed(w) ==
    IF w.kind = "claim"
    THEN \/ /\ w.res = Result(SomeClaims(w.claims), NoErr)
            /\ DOMAIN w.claims = DOMAIN w.resources
            /\ \A n \in PoolNames :
                  IF n \in DOMAIN w.resources
                  THEN FreeCount(Pools[n]) = FreeCount(w.pre[n]) - w.resources[n]
                  ELSE Pools[n] = w.pre[n]
         \/ /\ w.res.err # NoErr
            /\ w.res.claims = NilClaims
            /\ Pools = w.pre
    ELSE w.released = DOMAIN w.claims

\* C27: the return of a caller, by the cancellation of its context or
\* otherwise, changes neither the request the loop is processing nor the
\* queues nor any plugin; a request whose caller has returned still has its
\* next plugin call enabled; and the loop answers a request, and so takes
\* the next one, only when the request has changed all the plugins it
\* names or none.
C27_AdmittedRequestCompletes ==
    [][/\ \A i \in CallIds :
             Returns(i) => UNCHANGED <<inproc, plugins, toClaim, toRelease, loopPc>>
       /\ \A w \in inproc :
             /\ w.phase = "claim" => ENABLED ClaimStep
             /\ w.phase \in {"rollback", "release"} => ENABLED ReleaseStep
             /\ w.phase = "answer" => Completed(w)
       /\ (inproc = {} /\ inproc' # {}) => (LoopRecvClaim \/ LoopRecvRelease)
      ]_vars

\* C27 witness: the loop has claimed both resources of a request whose
\* caller returned its context's error in the meantime
C27_Witness ==
    \E w \in inproc :
        /\ w.kind = "claim"
        /\ w.phase = "answer"
        /\ DOMAIN w.claims = {"gpu", "nic"}
        /\ calls[w.id].pc = "done"
        /\ ret.id = w.id
        /\ ret.via = "ctx"
        /\ ret.err = CallCtxErr

\* C28: in a Claimer of device pools, a claim request that has passed the
\* CanClaim loop never sees a plugin.Claim fail and never enters the
\* rollback: while it is between two Claim calls every pool still to be
\* claimed from has the requested number of Free devices, whatever other
\* callers do in the meantime.
C28_NoCheckThenActGap ==
    \A w \in inproc :
        w.kind = "claim" =>
            /\ w.phase \in {"claim", "answer"}
            /\ w.trigger = NoErr
            /\ w.phase = "claim" =>
                  /\ ShortNames(w) = {}
                  /\ \A n \in w.todo : canClaim(plugins[n].devices, w.resources[n])
            /\ (w.phase = "answer" /\ ShortNames(w) = {}) => w.res.err = NoErr

\* C28 witness: a request for two resources is between its two Claim calls
\* while another caller has returned and a third call is being made
C28_Witness ==
    \E w \in inproc :
        /\ w.kind = "claim"
        /\ w.phase = "claim"
        /\ DOMAIN w.claims # {}
        /\ w.todo # {}
        /\ \E i \in CallIds : i # w.id /\ calls[i].pc \in {"send", "wait", "done"}

\* C29: the loop never waits when it sends a result: the resultChan of a
\* request that is queued or being processed is empty, so the one send the
\* request receives finds room, also when its caller has returned; no
\* resultChan ever holds more than one result.
C29_ResultSendNeverBlocks ==
    /\ \A w \in inproc : Len(resultChan[w.id]) < ResultDepth
    /\ \A k \in 1..Len(toClaim) : Len(resultChan[toClaim[k].id]) < ResultDepth
    /\ \A k \in 1..Len(toRelease) : Len(resultChan[toRelease[k].id]) < ResultDepth
    /\ \A i \in CallIds : Len(resultChan[i]) <= 1
    /\ \A w \in inproc : w.phase = "answer" => ENABLED LoopAnswer

\* C29 witness: the result of a request whose caller has returned lies
\* unread in its resultChan, and the loop is processing the request of
\* another caller
C29_Witness ==
    \E i \in CallIds :
        /\ calls[i].pc = "done"
        /\ resultChan[i] # <<>>
        /\ \E w \in inproc : w.id # i

\* the ids of a listing rise strictly: the events are in recording order
InRecordingOrder(list) ==
    \A i \in 1..Len(list) : \A j \in 1..Len(list) : i < j => list[i].id < list[j].id

\* C25: a store of capacity maxEvents >= 1 never lists more than maxEvents
\* events, and lists them in recording order; an Eventf call on a store that
\* is not full appends the new event to the listing, and on a full store it
\* drops exactly the oldest event and appends the new one as the last.
C25_BoundedInRecordingOrder ==
    [][/\ Len(ListEvents(store')) <= store'.maxEvents
       /\ InRecordingOrder(ListEvents(store'))
       /\ (store'.recorded # store.recorded) =>
              LET old   == ListEvents(store)
                  event == Event(store.recorded + 1, store.now)
              IN  ListEvents(store') = IF Len(old) = store.maxEvents
                                       THEN Append(Tail(old), event)
                                       ELSE Append(old, event)]_vars

\* C25 witness: Eventf was called on a full store of capacity two whose
\* oldest event was not in the first slot; the store now lists the younger
\* of the two events it held and the new event
C25_Witness ==
    /\ store.maxEvents = 2
    /\ store.last.op = "Eventf"
    /\ Len(store.last.before) = 2
    /\ store.head = 0
    /\ store.events[0].id < store.events[1].id
    /\ ListEvents(store) = <<store.last.before[2], store.events[1]>>
    /\ store.events[1].id = store.recorded

\* the events of a listing whose time stamp plus the TTL lies after `now`
StillValid(list, eventTTL, now) ==
    LET Valid(event) == event.EventTime * 2 + eventTTL > now
    IN  SelectSeq(list, Valid)

\* C26: after removeExpiredEvents ran at the instant `now`, the store lists
\* exactly the events it listed before whose EventTime plus the TTL is
\* later than `now`, in their order.
C26_RemovesExactlyExpired ==
    store.last.op = "removeExpiredEvents" =>
        ListEvents(store) = StillValid(store.last.before, store.eventTTL, store.last.at)

\* C26 witness: removeExpiredEvents removed the older of two events, which
\* were recorded in different seconds, and kept the newer one
C26_Witness ==
    /\ store.last.op = "removeExpiredEvents"
    /\ Len(store.last.before) = 2
    /\ store.last.before[1].EventTime < store.last.before[2].EventTime
    /\ Len(ListEvents(store)) = 1
    /\ ListEvents(store)[1] = store.last.before[2]

\* two plugins of the list report the same Name
DuplicateName(list) ==
    \E i \in 1..Len(list) : \E j \in 1..Len(list) : i # j /\ list[i].name = list[j].name

\* the Init of some plugin of the list fails
SomeInitFails(list) ==
    \E i \in 1..Len(list) : GpuPluginInit(list[i].reader, list[i].preClaimed).err # NoErr

\* a Claim or Release call has been made
RequestMade == \E i \in CallIds : calls[i].pc # "new"

\* C22: NewResourceClaimer returns an error and no Claimer when two of its
\* plugins report the same Name or the Init of any of them fails; when it
\* returns a Claimer, every plugin of the list is registered and its Init
\* was called exactly once; no Init is ever called twice, and no Claim or
\* Release call is made before all this has happened.
C22_InitBeforeAnyRequest ==
    /\ \A i \in DOMAIN built.inits : built.inits[i] <= 1
    /\ built.returned =>
           /\ built.claimer <=> built.err = NoErr
           /\ (DuplicateName(built.plugins) \/ SomeInitFails(built.plugins)) =>
                  (~built.claimer /\ plugins = EmptyMap)
           /\ built.claimer =>
                  /\ DOMAIN plugins = {built.plugins[i].name : i \in DOMAIN built.plugins}
                  /\ \A i \in DOMAIN built.inits : built.inits[i] = 1
    /\ RequestMade =>
           /\ built.claimer
           /\ \A i \in DOMAIN built.inits : built.inits[i] = 1

\* C22 witness: NewResourceClaimer returned a Claimer for two plugins, one
\* with a pre-claimed device, and a caller holds a claim it was given
C22_Witness ==
    /\ built.claimer
    /\ Len(built.plugins) = 2
    /\ outstanding # {}
    /\ \E i \in CallIds : calls[i].pc = "done"

\* two Claims maps contain the same address of some device pool
Overlap(m1, m2) ==
    \E n \in DOMAIN m1 \cap DOMAIN m2 \cap PoolNames : AddrsOf(m1, n) \cap AddrsOf(m2, n) # {}

\* C30: while callers pass to Release only claims they were given and each
\* of them at most once, the claims that were returned and not passed to
\* Release are pairwise disjoint in their device addresses, and a claim
\* returned by Claim shares no address with any claim held at that moment.
C30_ExclusiveHolding ==
    [][/\ \A m1 \in Fresh' : \A m2 \in Fresh' : m1 # m2 => ~Overlap(m1, m2)
       /\ (ret' # ret /\ ret'.kind = "claim" /\ ret'.claims # NilClaims) =>
              \A m \in Fresh : ~Overlap(ret'.claims[1], m)]_vars

\* C30 witness: of two held claims the one for device 1 was released, and
\* device 1 was handed out again in a new claim while the claim for device
\* 2 is still held
C30_Witness ==
    /\ Fresh = {[n \in {"gpu"} |-> GpuClaim(<<2>>)],
                [n \in {"gpu", "nic"} |-> IF n = "gpu" THEN GpuClaim(<<1>>) ELSE GpuClaim(<<3>>)]}
    /\ issued["gpu"] = {1}
    /\ ret.kind = "claim"
    /\ ret.claims # NilClaims

\* the devices a call turned from Free to Claimed
NewlyClaimed(call) ==
    {a \in DOMAIN call.before :
        call.before[a] = ClaimStatusFree /\ call.after[a] = ClaimStatusClaimed}

\* C31: a successful Claim(q) of a device pool, for any integer q, marks
\* exactly max(q, 0) devices Claimed and returns exactly that many
\* addresses; a Claim of a negative quantity leaves the device map as it was.
C31_ClaimsMaxOfQuantityAndZero ==
    (pool.last.op = "Claim" /\ pool.last.err = NoErr) =>
        LET c    == pool.last
            want == IF c.quantity > 0 THEN c.quantity ELSE 0
        IN  /\ Len(c.claim.devices) = want
            /\ Cardinality(NewlyClaimed(c)) = want
            /\ c.quantity < 0 => c.after = c.before

\* the slots of the buffer from head on that hold the count stored events
Window(es) == {(es.head + i) % es.maxEvents : i \in 0..(es.count - 1)}

\* C32: in a store of capacity maxEvents >= 1, whatever Eventf,
\* removeExpiredEvents and ListEvents calls were made, count lies in
\* 0..maxEvents and head in 0..maxEvents-1, a slot of the buffer holds an
\* event exactly when it is one of the count slots from head on, and so
\* ListEvents reads no nil slot.
C32_RingBufferInvariant ==
    /\ store.maxEvents >= 1
    /\ 0 <= store.count /\ store.count <= store.maxEvents
    /\ 0 <= store.head /\ store.head < store.maxEvents
    /\ DOMAIN store.events = 0..(store.maxEvents - 1)
    /\ \A index \in DOMAIN store.events :
          store.events[index] # NilEvent <=> index \in Window(store)
    /\ \A i \in 1..store.count : ListEvents(store)[i] # NilEvent
    /\ \A i \in 1..Len(store.last.result) : store.last.result[i] # NilEvent

\* C32 witness: after recordings and a removal the one stored event lies in
\* the second slot of a buffer of two, the first slot is nil, and ListEvents
\* returned that event
C32_Witness ==
    /\ store.maxEvents = 2
    /\ store.head = 1
    /\ store.count = 1
    /\ store.events[0] = NilEvent
    /\ store.last.op = "ListEvents"
    /\ store.last.result = <<store.events[1]>>

====
